---------------------------- MODULE Spec2Model ----------------------------
(***************************************************************************)
(* Game-identity resolution and reconciliation engine of mcc_ojt_kbo.      *)
(*                                                                         *)
(*   scripts/fix_duplicate_game_ids.py   the identifier repair engine      *)
(*   scripts/add_game_id_to_daily.py     the game index and the resolver   *)
(*                                                                         *)
(* CSV cells and identifiers are strings; Len, SubSeq and \o act on them   *)
(* character by character, as Python's len, slicing and + do.              *)
(***************************************************************************)
EXTENDS Integers, Sequences, FiniteSets, TLC

(***************************************************************************)
(* Bounds of the model.                                                    *)
(***************************************************************************)
\* rows of a daily file handed to the repair engine
MaxRows == 3
\* runs of fix_file on the same file
MaxRuns == 2
\* game records in a Games_all file
MaxGames == 2
\* rows of a daily file handed to the resolver
MaxDaily == 2

(***************************************************************************)
(* Strings.                                                                *)
(***************************************************************************)
Digits == {"0", "1", "2", "3", "4", "5", "6", "7", "8", "9"}

\* s[i-1] of Python (1-based here); "" past either end
Ch(s, i) == IF i >= 1 /\ i <= Len(s) THEN SubSeq(s, i, i) ELSE ""

\* the characters i..j of s, clamped to s as a Python slice is
Slice(s, i, j) ==
    LET a == IF i < 1 THEN 1 ELSE i
        b == IF j > Len(s) THEN Len(s) ELSE j
    IN  IF a > b THEN "" ELSE SubSeq(s, a, b)

IsDigit(c) == c \in Digits

\* every character of s[i-1 : i-1+n] exists and is a digit (regex \d{n} at i)
DigitsAt(s, i, n) == \A k \in i..(i + n - 1) : IsDigit(Ch(s, k))

\* str.endswith
EndsWith(s, suf) ==
    Len(s) >= Len(suf) /\ SubSeq(s, Len(s) - Len(suf) + 1, Len(s)) = suf

\* all sequences over S of length at most n
SeqsUpTo(S, n) == UNION {[1..k -> S] : k \in 0..n}

(***************************************************************************)
(* pandas: read_csv(dtype=str) and to_csv(index=False).                    *)
(* A cell of the frame is a string or NaN.  read_csv turns every cell      *)
(* whose text is one of pandas' default NA spellings into NaN, so no       *)
(* string cell of a frame just read is empty: the empty string stands for  *)
(* NaN in the frame.  to_csv writes NaN as the empty field.                *)
(***************************************************************************)
NaN == ""

\* the NA spellings of pandas that occur in the model
NA_VALUES == {"", "nan", "NaN", "NA"}

ReadCell(text) == IF text \in NA_VALUES THEN NaN ELSE text

\* str(cell): NaN prints as 'nan'
Str(cell) == IF cell = NaN THEN "nan" ELSE cell

ReadRow(r) ==
    [PLAYER_ID |-> ReadCell(r.PLAYER_ID),
     GAME_ID   |-> ReadCell(r.GAME_ID),
     GAME_DATE |-> ReadCell(r.GAME_DATE)]

read_csv(file) == [i \in 1..Len(file) |-> ReadRow(file[i])]

to_csv(frame) == frame

(***************************************************************************)
(* fix_duplicate_game_ids.fix_file, first pass: duplicates.                *)
(***************************************************************************)
\* a mutant of NewGid: flips the last character whatever the length is
NewGidAnyLength(s) ==
    IF Ch(s, Len(s)) = "1" THEN Slice(s, 1, Len(s) - 1) \o "2" ELSE s \o "_2"

\* the identifier given to a row that repeats a (PLAYER_ID, GAME_ID) pair
NewGid(s) ==
    IF Len(s) = 13
    THEN IF Ch(s, 13) = "1" THEN Slice(s, 1, 12) \o "2" ELSE s \o "_2"
    ELSE s \o "_2"

\* the loop over df.iterrows(): rows i..Len(frame), with the pairs seen and
\* the changes counted so far
RECURSIVE DupLoop(_, _, _, _)
DupLoop(frame, i, seen, n) ==
    IF i > Len(frame) THEN [df |-> frame, changes |-> n]
    ELSE LET pid  == frame[i].PLAYER_ID
             gid  == Str(frame[i].GAME_ID)
             pair == <<pid, gid>>
         IN  IF pair \notin seen
             THEN DupLoop(frame, i + 1, seen \cup {pair}, n)
             ELSE LET new_gid == NewGid(gid)
                  IN  DupLoop([frame EXCEPT ![i].GAME_ID = new_gid], i + 1,
                              seen \cup {<<pid, new_gid>>}, n + 1)

(***************************************************************************)
(* fix_file, second pass: dates of the rows marked '_2'.                   *)
(***************************************************************************)
Separators == {"-", "/", "."}

\* mapping = {'01': '10', '02': '20', '03': '30'}
MappedDays == {"01", "02", "03"}
mapping(day) == CASE day = "01" -> "10" [] day = "02" -> "20" [] day = "03" -> "30"

\* r"(\d{4})[-/\.]?(\d{2})[-/\.]?(\d{2})" tried at position i.  A separator
\* is taken exactly when one is there: leaving it out would need a digit
\* in its place.
DateAt(s, i) ==
    LET m == IF Ch(s, i + 4) \in Separators THEN i + 5 ELSE i + 4
        d == IF Ch(s, m + 2) \in Separators THEN m + 3 ELSE m + 2
    IN  [ok    |-> DigitsAt(s, i, 4) /\ DigitsAt(s, m, 2) /\ DigitsAt(s, d, 2),
         year  |-> Slice(s, i, i + 3),
         month |-> Slice(s, m, m + 1),
         day   |-> Slice(s, d, d + 1)]

\* re.search: the leftmost position that matches, 0 when there is none
DateSearch(s) ==
    LET hits == {i \in 1..Len(s) : DateAt(s, i).ok}
    IN  IF hits = {} THEN 0 ELSE CHOOSE i \in hits : \A j \in hits : i <= j

\* re.sub(r"(\d{4})(\d{2})(\d{2})", g1 + g2 + new_day, s, count=1)
SubCompact(s, new_day) ==
    LET hits == {i \in 1..Len(s) : DigitsAt(s, i, 8)}
    IN  IF hits = {} THEN s
        ELSE LET i == CHOOSE k \in hits : \A j \in hits : k <= j
             IN  Slice(s, 1, i + 5) \o new_day \o Slice(s, i + 8, Len(s))

\* r"(\d{4})[-/\.](\d{2})[-/\.](\d{2})" at position i: both separators needed
DashedAt(s, i) ==
    /\ DigitsAt(s, i, 4) /\ Ch(s, i + 4) \in Separators
    /\ DigitsAt(s, i + 5, 2) /\ Ch(s, i + 7) \in Separators
    /\ DigitsAt(s, i + 8, 2)

\* re.sub(r"(\d{4})[-/\.](\d{2})[-/\.](\d{2})", g1 + g2 + new_day, s, count=1)
SubDashed(s, new_day) ==
    LET hits == {i \in 1..Len(s) : DashedAt(s, i)}
    IN  IF hits = {} THEN s
        ELSE LET i == CHOOSE k \in hits : \A j \in hits : k <= j
             IN  Slice(s, 1, i - 1) \o Slice(s, i, i + 3)
                 \o Slice(s, i + 5, i + 6) \o new_day
                 \o Slice(s, i + 10, Len(s))

\* a mutant of DateFix: the '_2' marker is kept
DateFixKeepsMarker(row) ==
    LET gd == Str(row.GAME_DATE)
        at == DateSearch(gd)
        m  == DateAt(gd, at)
    IN  IF at = 0 \/ m.day \notin MappedDays THEN row
        ELSE [row EXCEPT !.GAME_DATE = m.year \o "-" \o m.month \o "-" \o mapping(m.day),
                         !.GAME_ID = SubCompact(Str(row.GAME_ID), mapping(m.day))]

\* the body of the second loop for one row of the mask
DateFix(row) ==
    LET gid == Str(row.GAME_ID)
        gd  == Str(row.GAME_DATE)
        at  == DateSearch(gd)
        m   == DateAt(gd, at)
    IN  IF at = 0 THEN row
        ELSE IF m.day \notin MappedDays THEN row
        ELSE LET new_day == mapping(m.day)
                 new_gd  == m.year \o "-" \o m.month \o "-" \o new_day
                 new_gid == SubDashed(SubCompact(Slice(gid, 1, Len(gid) - 2), new_day),
                                      new_day)
             IN  [row EXCEPT !.GAME_DATE = new_gd, !.GAME_ID = new_gid]

\* a mutant of Mask: every row is in the mask
MaskOfAllRows(frame) == {i \in 1..Len(frame) : Len(Str(frame[i].GAME_ID)) >= 0}

\* mask = df['GAME_ID'].astype(str).str.endswith('_2')
Mask(frame) == {i \in 1..Len(frame) : EndsWith(Str(frame[i].GAME_ID), "_2")}

\* the loop reaches "changes += 1" for this row: the date matches and its
\* day is a key of mapping
DateApplies(row) ==
    LET gd == Str(row.GAME_DATE)
        at == DateSearch(gd)
    IN  at # 0 /\ DateAt(gd, at).day \in MappedDays

\* a mutant of DateHits: counts every row of the mask
DateHitsWholeMask(frame) == {i \in 1..Len(frame) : EndsWith(Str(frame[i].GAME_ID), "_2")}

\* the rows of the mask that the loop rewrites (changes += 1 for each)
DateHits(frame) == {i \in Mask(frame) : DateApplies(frame[i])}

DateLoop(frame) ==
    [i \in 1..Len(frame) |-> IF i \in Mask(frame) THEN DateFix(frame[i]) ELSE frame[i]]

(***************************************************************************)
(* Dates.  A datetime.date is the number YYYYMMDD, whose order is the      *)
(* order of dates.                                                         *)
(***************************************************************************)
DigitVal(c) ==
    CASE c = "0" -> 0 [] c = "1" -> 1 [] c = "2" -> 2 [] c = "3" -> 3 [] c = "4" -> 4
      [] c = "5" -> 5 [] c = "6" -> 6 [] c = "7" -> 7 [] c = "8" -> 8 [] c = "9" -> 9

DigitChr(n) == Ch("0123456789", n + 1)

\* int() of a string of digits
RECURSIVE ToInt(_)
ToInt(s) ==
    IF Len(s) = 0 THEN 0
    ELSE 10 * ToInt(Slice(s, 1, Len(s) - 1)) + DigitVal(Ch(s, Len(s)))

DaysInMonth(y, m) ==
    IF m \in {4, 6, 9, 11} THEN 30
    ELSE IF m # 2 THEN 31
    ELSE IF (y % 4 = 0 /\ y % 100 # 0) \/ y % 400 = 0 THEN 29 ELSE 28

\* what datetime.fromisoformat(s).date() raises on
NoDate == 0

\* datetime.fromisoformat(s).date() for the text YYYY-MM-DD; NoDate where it
\* raises (a missing value, any other text of the model, an impossible day)
FromIso(s) ==
    IF ~( /\ Len(s) = 10
          /\ DigitsAt(s, 1, 4) /\ Ch(s, 5) = "-"
          /\ DigitsAt(s, 6, 2) /\ Ch(s, 8) = "-"
          /\ DigitsAt(s, 9, 2) )
    THEN NoDate
    ELSE LET y == ToInt(Slice(s, 1, 4))
             m == ToInt(Slice(s, 6, 7))
             d == ToInt(Slice(s, 9, 10))
         IN  IF y >= 1 /\ m >= 1 /\ m <= 12 /\ d >= 1 /\ d <= DaysInMonth(y, m)
             THEN y * 10000 + m * 100 + d
             ELSE NoDate

\* date.strftime('%Y%m%d')
Strftime(d) ==
    DigitChr((d \div 10000000) % 10) \o DigitChr((d \div 1000000) % 10)
    \o DigitChr((d \div 100000) % 10) \o DigitChr((d \div 10000) % 10)
    \o DigitChr((d \div 1000) % 10) \o DigitChr((d \div 100) % 10)
    \o DigitChr((d \div 10) % 10) \o DigitChr(d % 10)

(***************************************************************************)
(* Python's order on strings, for the sort of the interval tuples, and     *)
(* str.isupper.                                                            *)
(***************************************************************************)
UpperLetters == "ABCDEFGHIJKLMNOPQRSTUVWXYZ"
LowerLetters == "abcdefghijklmnopqrstuvwxyz"
CodeOrder == "-0123456789" \o UpperLetters \o "_" \o LowerLetters

\* ord(c), up to order
Ord(c) == CHOOSE i \in 1..Len(CodeOrder) : Ch(CodeOrder, i) = c

RECURSIVE StrLess(_, _)
StrLess(a, b) ==
    IF Len(b) = 0 THEN FALSE
    ELSE IF Len(a) = 0 THEN TRUE
    ELSE IF Ch(a, 1) # Ch(b, 1) THEN Ord(Ch(a, 1)) < Ord(Ch(b, 1))
    ELSE StrLess(Slice(a, 2, Len(a)), Slice(b, 2, Len(b)))

\* str.isupper: a cased character, and no lowercase one
IsUpper(s) ==
    /\ \E i \in 1..Len(s) : \E k \in 1..26 : Ch(s, i) = Ch(UpperLetters, k)
    /\ \A i \in 1..Len(s) : \A k \in 1..26 : Ch(s, i) # Ch(LowerLetters, k)

(***************************************************************************)
(* add_game_id_to_daily.load_player_history and find_player_team_at.       *)
(* An interval is the tuple <<start, end, team>>.                          *)
(***************************************************************************)
\* tuple order (sd, ed, team)
IntervalLess(a, b) ==
    \/ a[1] < b[1]
    \/ a[1] = b[1] /\ a[2] < b[2]
    \/ a[1] = b[1] /\ a[2] = b[2] /\ StrLess(a[3], b[3])

\* list.sort(): t put after the tuples that are not greater
RECURSIVE InsertSorted(_, _)
InsertSorted(sorted, t) ==
    IF Len(sorted) = 0 THEN <<t>>
    ELSE IF IntervalLess(t, Head(sorted)) THEN <<t>> \o sorted
    ELSE <<Head(sorted)>> \o InsertSorted(Tail(sorted), t)

RECURSIVE SortIntervals(_)
SortIntervals(list) ==
    IF Len(list) = 0 THEN <<>>
    ELSE InsertSorted(SortIntervals(SubSeq(list, 1, Len(list) - 1)), list[Len(list)])

\* the rows of pid that parse, in file order
RECURSIVE IntervalsOf(_, _)
IntervalsOf(rows, pid) ==
    IF Len(rows) = 0 THEN <<>>
    ELSE LET r  == Head(rows)
             sd == FromIso(r.start_date)
             ed == FromIso(r.end_date)
         IN  (IF r.player_id = pid /\ sd # NoDate /\ ed # NoDate
              THEN <<(<<sd, ed, r.team>>)>> ELSE <<>>)
             \o IntervalsOf(Tail(rows), pid)

\* a mutant of load_player_history: a row whose dates do not parse is kept
\* as an interval without limits
load_player_history_keeps_undated(rows) ==
    [pid \in {rows[i].player_id : i \in 1..Len(rows)} |->
        SortIntervals([i \in 1..Cardinality({j \in 1..Len(rows) : rows[j].player_id = pid}) |->
            LET r == rows[CHOOSE j \in 1..Len(rows) :
                            /\ rows[j].player_id = pid
                            /\ Cardinality({k \in 1..j : rows[k].player_id = pid}) = i]
            IN  IF FromIso(r.start_date) # NoDate /\ FromIso(r.end_date) # NoDate
                THEN <<FromIso(r.start_date), FromIso(r.end_date), r.team>>
                ELSE <<10101, 99991231, r.team>>])]

\* player_id -> sorted list of (start_date, end_date, team)
load_player_history(rows) ==
    LET pids == {rows[i].player_id : i \in {j \in 1..Len(rows) :
                     FromIso(rows[j].start_date) # NoDate /\ FromIso(rows[j].end_date) # NoDate}}
    IN  [pid \in pids |-> SortIntervals(IntervalsOf(rows, pid))]

\* None
NoTeam == ""

\* a mutant of find_player_team_at: the end date is not part of the interval
find_player_team_before_end(history, pid, date_obj) ==
    IF pid \notin DOMAIN history THEN NoTeam
    ELSE LET intervals == history[pid]
             hits == {i \in 1..Len(intervals) :
                         intervals[i][1] <= date_obj /\ date_obj < intervals[i][2]}
         IN  IF hits = {} THEN NoTeam
             ELSE intervals[CHOOSE i \in hits : \A j \in hits : i <= j][3]

\* the team of the first interval that covers the date
find_player_team_at(history, pid, date_obj) ==
    IF pid \notin DOMAIN history THEN NoTeam
    ELSE LET intervals == history[pid]
             hits == {i \in 1..Len(intervals) :
                         intervals[i][1] <= date_obj /\ date_obj <= intervals[i][2]}
         IN  IF hits = {} THEN NoTeam
             ELSE intervals[CHOOSE i \in hits : \A j \in hits : i <= j][3]

(***************************************************************************)
(* build_games_index_and_abbr and build_team_abbrev_map.                   *)
(* mapping_counts (team -> Counter of abbreviations) is kept as the list   *)
(* of the votes <<team, abbr>> in the order they are counted: a Counter    *)
(* keeps its keys in insertion order, and most_common(1) is the first key  *)
(* with the greatest count.                                                *)
(***************************************************************************)
\* gid[8:10], gid[10:12] when len(gid) >= 12, else ''
AwayAbbr(gid) == IF Len(gid) >= 12 THEN Slice(gid, 9, 10) ELSE ""
HomeAbbr(gid) == IF Len(gid) >= 12 THEN Slice(gid, 11, 12) ELSE ""

VoteCount(votes, team, abbr) ==
    Cardinality({i \in 1..Len(votes) : votes[i] = <<team, abbr>>})

FirstVote(votes, team, abbr) ==
    CHOOSE i \in 1..Len(votes) : votes[i] = <<team, abbr>> /\ \A j \in 1..(i - 1) : votes[j] # votes[i]

\* counter.most_common(1)[0][0]
MostCommon(votes, team) ==
    LET abbrs == {votes[i][2] : i \in {j \in 1..Len(votes) : votes[j][1] = team}}
    IN  CHOOSE a \in abbrs :
            \A b \in abbrs \ {a} :
                \/ VoteCount(votes, team, a) > VoteCount(votes, team, b)
                \/ /\ VoteCount(votes, team, a) = VoteCount(votes, team, b)
                   /\ FirstVote(votes, team, a) < FirstVote(votes, team, b)

\* team -> most common abbreviation
TeamAbbr(votes) ==
    [team \in {votes[i][1] : i \in 1..Len(votes)} |-> MostCommon(votes, team)]

\* the votes one record of build_games_index_and_abbr casts
IndexVotes(r) ==
    (IF r.team_away # "" /\ AwayAbbr(r.game_id) # ""
     THEN <<(<<r.team_away, AwayAbbr(r.game_id)>>)>> ELSE <<>>)
    \o (IF r.team_home # "" /\ HomeAbbr(r.game_id) # ""
        THEN <<(<<r.team_home, HomeAbbr(r.game_id)>>)>> ELSE <<>>)

\* the key a record is indexed under: (ymd, away_abbr, home_abbr)
IndexKey(r) == <<Strftime(FromIso(r.date)), AwayAbbr(r.game_id), HomeAbbr(r.game_id)>>

\* the record reaches "games_index[...] = gid"
IsIndexed(r) ==
    /\ r.date # ""
    /\ FromIso(r.date) # NoDate
    /\ AwayAbbr(r.game_id) # "" /\ HomeAbbr(r.game_id) # ""

\* a mutant of IndexPut: a key that is there keeps its value
IndexPutIfAbsent(index, key, gid) ==
    IF key \in DOMAIN index THEN index ELSE (key :> gid) @@ index

\* games_index[(ymd, away_abbr, home_abbr)] = gid
IndexPut(index, key, gid) == (key :> gid) @@ index

\* the votes of build_team_abbrev_map: rows with len(gid) >= 12, no date needed
RECURSIVE YearVotes(_)
YearVotes(rows) ==
    IF Len(rows) = 0 THEN <<>>
    ELSE LET r == Head(rows)
         IN  (IF Len(r.game_id) < 12 THEN <<>>
              ELSE (IF r.team_away # "" THEN <<(<<r.team_away, AwayAbbr(r.game_id)>>)>> ELSE <<>>)
                   \o (IF r.team_home # "" THEN <<(<<r.team_home, HomeAbbr(r.game_id)>>)>> ELSE <<>>))
             \o YearVotes(Tail(rows))

build_team_abbrev_map(rows) == TeamAbbr(YearVotes(rows))

(***************************************************************************)
(* process_daily_file: one row.                                            *)
(***************************************************************************)
\* dict.get: None is ""
Get(map, key) == IF key \in DOMAIN map THEN map[key] ELSE ""

\* the opponent's abbreviation: the map, else a 2-3 letter uppercase text
OppAbbr(team_map, opp_key) ==
    IF Get(team_map, opp_key) # "" THEN Get(team_map, opp_key)
    ELSE IF IsUpper(opp_key) /\ 1 < Len(opp_key) /\ Len(opp_key) <= 3 THEN opp_key
    ELSE ""

\* a mutant of IndexLookup: only the (opponent, player) ordering is probed
IndexLookupFirstOnly(index, ymd, player_abbr, opp_abbr) ==
    Get(index, <<ymd, opp_abbr, player_abbr>>)

\* games_index.get(k1) or games_index.get(k2) or ''
IndexLookup(index, ymd, player_abbr, opp_abbr) ==
    IF Get(index, <<ymd, opp_abbr, player_abbr>>) # ""
    THEN Get(index, <<ymd, opp_abbr, player_abbr>>)
    ELSE Get(index, <<ymd, player_abbr, opp_abbr>>)

\* the game_id of a row whose date parsed.  has_index: the third argument
\* of process_daily_file was the tuple (team_map, games_index, abbr_set)
ResolveRow(history, team_map, has_index, index, r) ==
    LET dobj        == FromIso(r.GAME_DATE)
        player_team == find_player_team_at(history, r.PLAYER_ID, dobj)
        ymd         == Strftime(dobj)
        opp_abbr    == OppAbbr(team_map, r.OPPONENT)
        player_abbr == IF player_team # NoTeam THEN Get(team_map, player_team) ELSE ""
    IN  IF player_abbr # "" /\ opp_abbr # ""
        THEN IF has_index THEN IndexLookup(index, ymd, player_abbr, opp_abbr)
             ELSE ymd \o opp_abbr \o player_abbr \o "0"
        ELSE ""

(***************************************************************************)
(* Calendar arithmetic: date(y, m, d), date - date, date + timedelta and   *)
(* date.isoformat(), on the numbers YYYYMMDD.                              *)
(***************************************************************************)
Date(y, m, d) == y * 10000 + m * 100 + d
YearOf(dt)  == dt \div 10000
MonthOf(dt) == (dt \div 100) % 100
DayOf(dt)   == dt % 100

DaysInYear(y) == IF DaysInMonth(y, 2) = 29 THEN 366 ELSE 365

\* the days of year y before month m
RECURSIVE DaysBeforeMonth(_, _)
DaysBeforeMonth(y, m) ==
    IF m <= 1 THEN 0 ELSE DaysBeforeMonth(y, m - 1) + DaysInMonth(y, m - 1)

\* date.toordinal()
ToOrdinal(dt) ==
    LET y1 == YearOf(dt) - 1
    IN  365 * y1 + (y1 \div 4) - (y1 \div 100) + (y1 \div 400)
        + DaysBeforeMonth(YearOf(dt), MonthOf(dt)) + DayOf(dt)

\* (a - b).days
DaysBetween(a, b) == ToOrdinal(a) - ToOrdinal(b)

\* the n-th day counted from the first of month m of year y, n >= 1
RECURSIVE FromMonthDay(_, _, _)
FromMonthDay(y, m, n) ==
    IF m > 12 THEN FromMonthDay(y + 1, 1, n)
    ELSE IF n <= DaysInMonth(y, m) THEN Date(y, m, n)
    ELSE FromMonthDay(y, m + 1, n - DaysInMonth(y, m))

\* dt + timedelta(days=k), k >= 0
AddDays(dt, k) == FromMonthDay(YearOf(dt), MonthOf(dt), DayOf(dt) + k)

\* dt - timedelta(days=1)
DayBefore(dt) ==
    IF DayOf(dt) > 1 THEN dt - 1
    ELSE IF MonthOf(dt) > 1
         THEN Date(YearOf(dt), MonthOf(dt) - 1, DaysInMonth(YearOf(dt), MonthOf(dt) - 1))
         ELSE Date(YearOf(dt) - 1, 12, 31)

\* date.isoformat()
IsoFormat(dt) ==
    LET s == Strftime(dt)
    IN  Slice(s, 1, 4) \o "-" \o Slice(s, 5, 6) \o "-" \o Slice(s, 7, 8)

(***************************************************************************)
(* crawl_player_team_history: split_year_entries, coalesce_periods and     *)
(* fetch_player_history from the parsed (year, team) rows on.              *)
(***************************************************************************)
Period(year, team, start, end) ==
    [year |-> year, team |-> team, start |-> start, end |-> end]

\* a mutant of Chunk: the quotient is rounded up
ChunkRoundedUp(days, n) == (days + n - 1) \div n

\* chunk = days // n
Chunk(days, n) == days \div n

\* starts[i], i from 1: the first of January advanced i - 1 times by chunk days
RECURSIVE StartOf(_, _, _)
StartOf(year, chunk, i) ==
    IF i = 1 THEN Date(year, 1, 1) ELSE AddDays(StartOf(year, chunk, i - 1), chunk)

split_year_entries(year, teams_list) ==
    LET n == Len(teams_list)
    IN  IF n = 0 THEN <<>>
        ELSE IF n = 1
        THEN <<Period(year, teams_list[1], Date(year, 1, 1), Date(year, 12, 31))>>
        ELSE IF n = 2
        THEN <<Period(year, teams_list[1], Date(year, 1, 1), Date(year, 6, 30)),
               Period(year, teams_list[2], Date(year, 7, 1), Date(year, 12, 31))>>
        ELSE LET chunk == Chunk(DaysInYear(year), n)
             IN  [i \in 1..n |->
                    Period(year, teams_list[i], StartOf(year, chunk, i),
                           IF i < n THEN DayBefore(StartOf(year, chunk, i + 1))
                           ELSE Date(year, 12, 31))]

\* sorted(periods, key=lambda x: x['start']): stable
RECURSIVE InsertByStart(_, _)
InsertByStart(sorted, p) ==
    IF Len(sorted) = 0 THEN <<p>>
    ELSE IF p.start < Head(sorted).start THEN <<p>> \o sorted
    ELSE <<Head(sorted)>> \o InsertByStart(Tail(sorted), p)

RECURSIVE SortByStart(_)
SortByStart(list) ==
    IF Len(list) = 0 THEN <<>>
    ELSE InsertByStart(SortByStart(SubSeq(list, 1, Len(list) - 1)), list[Len(list)])

\* a mutant of Contiguous: only the day after the end counts
ContiguousNextDayOnly(p, last) == DaysBetween(p.start, last.end) = 1

\* (p['start'] - last['end']).days in (0, 1)
Contiguous(p, last) == DaysBetween(p.start, last.end) \in {0, 1}

\* the test of the loop of coalesce_periods
Extends(p, last) == p.team = last.team /\ Contiguous(p, last)

Max(a, b) == IF a >= b THEN a ELSE b

\* one iteration of the loop of coalesce_periods
CoalesceOne(merged_list, p) ==
    LET k    == Len(merged_list)
        last == merged_list[k]
    IN  IF Extends(p, last)
        THEN [merged_list EXCEPT ![k].end = Max(last.end, p.end)]
        ELSE Append(merged_list, p)

\* parsed: the (year, team) rows in page order.  year_team keeps the first
\* team of a year
FirstOfYear(parsed, y) ==
    parsed[CHOOSE i \in 1..Len(parsed) :
               parsed[i][1] = y /\ \A j \in 1..(i - 1) : parsed[j][1] # y][2]

year_team_of(parsed) ==
    [y \in {parsed[i][1] : i \in 1..Len(parsed)} |-> FirstOfYear(parsed, y)]

RECURSIVE Ascending(_)
Ascending(S) ==
    IF S = {} THEN <<>>
    ELSE LET m == CHOOSE x \in S : \A z \in S : x <= z
         IN  <<m>> \o Ascending(S \ {m})

\* a mutant of SortedYears: the years in the order the page lists them
RECURSIVE YearsAsListed(_)
YearsAsListed(parsed) ==
    IF Len(parsed) = 0 THEN <<>>
    ELSE LET rest == YearsAsListed(SubSeq(parsed, 1, Len(parsed) - 1))
             y    == parsed[Len(parsed)][1]
         IN  IF \E i \in 1..Len(rest) : rest[i] = y \/ y < 2021 \/ y > 2025
             THEN rest ELSE Append(rest, y)

\* sorted([y for y in year_team.keys() if 2021 <= int(y) <= 2025])
SortedYears(parsed) ==
    Ascending({y \in DOMAIN year_team_of(parsed) : 2021 <= y /\ y <= 2025})

\* a row of player_team_history.csv (the name column, which is copied from
\* the player list, is left out)
HistoryRow(pid, team, start_date, end_date) ==
    [player_id |-> pid, team |-> team, start_date |-> start_date, end_date |-> end_date]

\* a mutant of ContinuesGroup: every year closes the group
ClosesEveryYear(yt, y, group_team, prev_year) == FALSE

\* a mutant of ContinuesGroup: the same team continues the group over a gap
ContinuesGroupOverGap(yt, y, group_team, prev_year) ==
    yt[y] = group_team /\ y >= prev_year + 1

\* year_team[y] == group_team and int(y) == int(prev_year) + 1
ContinuesGroup(yt, y, group_team, prev_year) ==
    yt[y] = group_team /\ y = prev_year + 1

\* the loop over years[1:] and the closing of the last group
RECURSIVE GroupYears(_, _, _, _, _, _)
GroupYears(pid, yt, years, group_start, group_team, prev_year) ==
    IF Len(years) = 0
    THEN <<HistoryRow(pid, group_team, IsoFormat(Date(group_start, 1, 1)),
                      IsoFormat(Date(prev_year, 12, 31)))>>
    ELSE LET y == Head(years)
         IN  IF ContinuesGroup(yt, y, group_team, prev_year)
             THEN GroupYears(pid, yt, Tail(years), group_start, group_team, y)
             ELSE <<HistoryRow(pid, group_team, IsoFormat(Date(group_start, 1, 1)),
                               IsoFormat(Date(prev_year, 12, 31)))>>
                  \o GroupYears(pid, yt, Tail(years), y, yt[y], y)

fetch_player_history(pid, parsed) ==
    LET yt    == year_team_of(parsed)
        years == SortedYears(parsed)
    IN  IF Len(years) = 0 THEN <<>>
        ELSE GroupYears(pid, yt, Tail(years), years[1], yt[years[1]], years[1])

\* the rows main appends to player_team_history.csv for one player
Placeholder(pid) == HistoryRow(pid, "NO_DATA", "", "")

main_rows(pid, rows) == IF Len(rows) = 0 THEN <<Placeholder(pid)>> ELSE rows

(***************************************************************************)
(* Player ids.  collect_player_attributes_from_stats.collect, and          *)
(* load_attributes, scan_roles and process_file of                         *)
(* add_player_id_to_advanced_from_attributes, from the rows of the         *)
(* statistics files on.  A row is [role, id, name]: the role is the one    *)
(* the name of its file stands for.                                        *)
(***************************************************************************)
\* str(n), n >= 0
RECURSIVE IntToStr(_)
IntToStr(n) == IF n < 10 THEN DigitChr(n) ELSE IntToStr(n \div 10) \o DigitChr(n % 10)

\* the place of the first '.' of s, 0 if it has none
DotAt(s) ==
    IF \E i \in 1..Len(s) : Ch(s, i) = "."
    THEN CHOOSE i \in 1..Len(s) : Ch(s, i) = "." /\ \A j \in 1..(i - 1) : Ch(s, j) # "."
    ELSE 0

\* int(pid) succeeds: the ids of the model are digits, or not numbers
IsIntText(s) == Len(s) > 0 /\ DigitsAt(s, 1, Len(s))

\* float(pid) succeeds for a text with a '.': digits on both sides of it
IsFloatText(s) ==
    /\ DotAt(s) > 1 /\ DotAt(s) < Len(s)
    /\ DigitsAt(s, 1, DotAt(s) - 1)
    /\ DigitsAt(s, DotAt(s) + 1, Len(s) - DotAt(s))

\* the try block does not raise
Normalizes(pid) == IF DotAt(pid) > 0 THEN IsFloatText(pid) ELSE IsIntText(pid)

\* str(int(float(pid))) if '.' in pid else str(int(pid))
NormId(pid) ==
    IF DotAt(pid) > 0 THEN IntToStr(ToInt(Slice(pid, 1, DotAt(pid) - 1)))
    ELSE IntToStr(ToInt(pid))

\* the rows collect keeps: a non-empty id that normalizes
Collectable(r) ==
    /\ ReadCell(r.id) # NaN
    /\ Normalizes(r.id)

\* a mutant of FirstNamed: the last name observed for the id
LastNamed(frags, pid) ==
    frags[CHOOSE i \in 1..Len(frags) :
              /\ Collectable(frags[i]) /\ NormId(frags[i].id) = pid /\ ReadCell(frags[i].name) # NaN
              /\ \A j \in (i + 1)..Len(frags) :
                    ~(Collectable(frags[j]) /\ NormId(frags[j].id) = pid /\ ReadCell(frags[j].name) # NaN)].name

\* if pid not in id_to_name and name: id_to_name[pid] = name
FirstNamed(frags, pid) ==
    frags[CHOOSE i \in 1..Len(frags) :
              /\ Collectable(frags[i]) /\ NormId(frags[i].id) = pid /\ ReadCell(frags[i].name) # NaN
              /\ \A j \in 1..(i - 1) :
                    ~(Collectable(frags[j]) /\ NormId(frags[j].id) = pid /\ ReadCell(frags[j].name) # NaN)].name

\* collect's id_to_name after all the files
id_to_name_of(frags) ==
    [pid \in {NormId(frags[i].id) : i \in {j \in 1..Len(frags) :
                 Collectable(frags[j]) /\ ReadCell(frags[j].name) # NaN}}
        |-> FirstNamed(frags, pid)]

AttrRow(pid, name) == [id |-> pid, name |-> name]

\* df_out.sort_values(by the name): the orders the sort can leave the
\* records in (equal names in any order)
SortedByName(recs) ==
    {s \in [1..Cardinality(recs) -> recs] :
        /\ \A i, j \in 1..Cardinality(recs) : i # j => s[i] # s[j]
        /\ \A i, j \in 1..Cardinality(recs) : i < j => ~StrLess(s[j].name, s[i].name)}

\* the files player_attributes.csv can be after collect
collect(frags) ==
    SortedByName({AttrRow(pid, id_to_name_of(frags)[pid]) : pid \in DOMAIN id_to_name_of(frags)})

\* the rows of the attributes file load_attributes keeps
Loadable(r) ==
    /\ Str(ReadCell(r.name)) \notin {"nan", ""}
    /\ Str(ReadCell(r.id)) \notin {"nan", ""}

\* non-numeric ids are kept as-is
LoadedId(r) == IF Normalizes(r.id) THEN NormId(r.id) ELSE r.id

\* sorted(list(ids))
RECURSIVE SortStrings(_)
SortStrings(S) ==
    IF S = {} THEN <<>>
    ELSE LET m == CHOOSE x \in S : \A z \in S \ {x} : StrLess(x, z)
         IN  <<m>> \o SortStrings(S \ {m})

\* load_attributes: mapping_lists, name -> sorted ids
mapping_lists_of(attrs) ==
    [name \in {attrs[i].name : i \in {j \in 1..Len(attrs) : Loadable(attrs[j])}} |->
        SortStrings({LoadedId(attrs[i]) : i \in {j \in 1..Len(attrs) :
                         Loadable(attrs[j]) /\ attrs[j].name = name}})]

unique_map_of(lists) ==
    [name \in {n \in DOMAIN lists : Len(lists[n]) = 1} |-> lists[name][1]]

dup_names_of(lists) ==
    [name \in {n \in DOMAIN lists : Len(lists[n]) > 1} |-> lists[name]]

\* scan_roles: the id of a row, kept as-is when it does not normalize
ScannedId(r) == IF Normalizes(r.id) THEN NormId(r.id) ELSE r.id

scan_roles(frags) ==
    [pid \in {ScannedId(frags[i]) : i \in {j \in 1..Len(frags) : ReadCell(frags[j].id) # NaN}} |->
        {frags[i].role : i \in {j \in 1..Len(frags) :
             ReadCell(frags[j].id) # NaN /\ ScannedId(frags[j]) = pid}}]

\* no desired role: the file is neither a hitter nor a pitcher file
NoRole == ""

RolesOf(roles, pid) == IF pid \in DOMAIN roles THEN roles[pid] ELSE {}

\* [pid for pid in candidates if desired_role in roles_map.get(pid, set())]
RECURSIVE RoleMatches(_, _, _)
RoleMatches(candidates, desired_role, roles) ==
    IF Len(candidates) = 0 THEN <<>>
    ELSE (IF desired_role \in RolesOf(roles, Head(candidates))
          THEN <<Head(candidates)>> ELSE <<>>)
         \o RoleMatches(Tail(candidates), desired_role, roles)

\* a mutant of PickByRole: the first candidate with the role is taken
PickFirstByRole(role_matches) ==
    IF Len(role_matches) >= 1 THEN role_matches[1] ELSE ""

\* chosen = role_matches[0] if len(role_matches) == 1 else ''
PickByRole(role_matches) ==
    IF Len(role_matches) = 1 THEN role_matches[1] ELSE ""

\* process_file: the id chosen for the name n
Chosen(n, lists, unique, roles, desired_role) ==
    IF n = "" THEN ""
    ELSE IF n \in DOMAIN unique THEN unique[n]
    ELSE LET candidates == IF n \in DOMAIN lists THEN lists[n] ELSE <<>>
         IN  IF Len(candidates) = 1 THEN candidates[1]
             ELSE IF Len(candidates) > 1 /\ desired_role # NoRole
             THEN PickByRole(RoleMatches(candidates, desired_role, roles))
             ELSE ""

(***************************************************************************)
(* crawl_game_by_game_selenium: normalize_team_alias.  The rows of its     *)
(* table whose key and name are written in Latin letters; the rows written *)
(* in Hangul are left out.                                                 *)
(***************************************************************************)
\* c.lower() for one character
LowerChar(c) ==
    IF \E k \in 1..26 : Ch(UpperLetters, k) = c
    THEN Ch(LowerLetters, CHOOSE k \in 1..26 : Ch(UpperLetters, k) = c)
    ELSE c

\* s.lower()
RECURSIVE Lower(_)
Lower(s) == IF Len(s) = 0 THEN "" ELSE LowerChar(Ch(s, 1)) \o Lower(Slice(s, 2, Len(s)))

\* s.replace(c, '')
RECURSIVE Remove(_, _)
Remove(s, c) ==
    IF Len(s) = 0 THEN ""
    ELSE (IF Ch(s, 1) = c THEN "" ELSE Ch(s, 1)) \o Remove(Slice(s, 2, Len(s)), c)

\* s.strip()
RECURSIVE Strip(_)
Strip(s) ==
    IF Len(s) = 0 THEN ""
    ELSE IF Ch(s, 1) = " " THEN Strip(Slice(s, 2, Len(s)))
    ELSE IF Ch(s, Len(s)) = " " THEN Strip(Slice(s, 1, Len(s) - 1))
    ELSE s

\* mapping
AliasTable ==
    [ht |-> "KIA", sk |-> "SSG", lg |-> "LG", kt |-> "KT", nc |-> "NC",
     kia |-> "KIA", kiatigers |-> "KIA", lgtwins |-> "LG", ktwiz |-> "KT",
     ncdinos |-> "NC", ncd |-> "NC", ssg |-> "SSG", ssglanders |-> "SSG"]
    @@ ("ssgland ers" :> "SSG")

\* a mutant of AliasKey: hyphens stay in the key
AliasKeyKeepsHyphens(s) == Remove(Lower(s), " ")

\* key = s.lower().replace(' ', '').replace('-', '')
AliasKey(s) == Remove(Remove(Lower(s), " "), "-")

normalize_team_alias(name) ==
    IF name = "" THEN ""
    ELSE LET s   == Strip(name)
             key == AliasKey(s)
         IN  IF key \in DOMAIN AliasTable THEN AliasTable[key] ELSE s

(***************************************************************************)
(* Files on disk.  A file is its header and its rows, or is missing; the   *)
(* rows of a daily file carry PLAYER_ID, the game id and GAME_DATE, with   *)
(* "" in the cells of a column the header does not have.                   *)
(***************************************************************************)
Missing == [exists |-> FALSE, header |-> <<>>, rows |-> <<>>]

File(header, rows) == [exists |-> TRUE, header |-> header, rows |-> rows]

\* open(path, 'w'): the file exists and is empty
Created == File(<<>>, <<>>)

\* c in fieldnames / c in df.columns
HasCol(header, c) == \E i \in DOMAIN header : header[i] = c

\* process_daily_file: the row written for r; this model has no reference
\* tables, so the player of r has no history and no game is indexed
ResolvedRow(r) ==
    IF FromIso(r.GAME_DATE) = NoDate THEN [r EXCEPT !.GAME_ID = ""]
    ELSE [r EXCEPT !.GAME_ID =
            ResolveRow(<<>>, <<>>, TRUE, <<>>,
                       [PLAYER_ID |-> r.PLAYER_ID, GAME_DATE |-> r.GAME_DATE,
                        OPPONENT |-> ""])]

REMAP == ("-01" :> "-10") @@ ("-02" :> "-20") @@ ("-03" :> "-30")

\* a mutant of RemapRow: the game_id of the row is not looked at
RemapRowAnyId(header, r) ==
    LET date_val == r.GAME_DATE
    IN  IF \E old \in DOMAIN REMAP : EndsWith(date_val, old)
        THEN LET old == CHOOSE o \in DOMAIN REMAP : EndsWith(date_val, o)
             IN  [r EXCEPT !.GAME_DATE = Slice(date_val, 1, Len(date_val) - 3) \o REMAP[old]]
        ELSE r

\* fix_game_date_for_missing_game_id.fix_file: the row written for r
RemapRow(header, r) ==
    LET gid      == IF HasCol(header, "game_id") THEN r.GAME_ID ELSE ""
        date_val == r.GAME_DATE
    IN  IF gid = "" /\ \E old \in DOMAIN REMAP : EndsWith(date_val, old)
        THEN LET old == CHOOSE o \in DOMAIN REMAP : EndsWith(date_val, o)
             IN  [r EXCEPT !.GAME_DATE = Slice(date_val, 1, Len(date_val) - 3) \o REMAP[old]]
        ELSE r

\* a mutant of NewContent: the resolver stops at the first row whose date
\* does not parse
NewContentStopsAtBadDate(script, source) ==
    LET bad == {i \in DOMAIN source.rows : FromIso(source.rows[i].GAME_DATE) = NoDate}
        n   == IF bad = {} THEN Len(source.rows)
               ELSE (CHOOSE i \in bad : \A j \in bad : i <= j) - 1
    IN  CASE script = "resolver" ->
                File(<<"game_id">> \o source.header,
                     [i \in 1..n |-> ResolvedRow(source.rows[i])])
          [] script = "repair" ->
                File(source.header,
                     to_csv(DateLoop(DupLoop(read_csv(source.rows), 1, {}, 0).df)))
          [] script = "datefix" ->
                File(source.header,
                     [i \in DOMAIN source.rows |-> RemapRow(source.header, source.rows[i])])

\* what a script writes for the file it has read
NewContent(script, source) ==
    CASE script = "resolver" ->
            File(<<"game_id">> \o source.header,
                 [i \in DOMAIN source.rows |-> ResolvedRow(source.rows[i])])
      [] script = "repair" ->
            File(source.header,
                 to_csv(DateLoop(DupLoop(read_csv(source.rows), 1, {}, 0).df)))
      [] script = "datefix" ->
            File(source.header,
                 [i \in DOMAIN source.rows |-> RemapRow(source.header, source.rows[i])])

\* "return 0" / "return 0, 0"
NoReturn == [rows |-> 0, changed |-> 0]

\* the rows of the file the date fix rewrites
Remapped(source) ==
    {i \in DOMAIN source.rows : RemapRow(source.header, source.rows[i]) # source.rows[i]}

\* what the call returns after it has written the file: rows_processed of
\* process_daily_file, changes of fix_duplicate_game_ids.fix_file, and
\* (rows, changed) of fix_game_date_for_missing_game_id.fix_file
Returned(script, source) ==
    CASE script = "resolver" ->
            [rows    |-> Cardinality({i \in DOMAIN source.rows :
                                        FromIso(source.rows[i].GAME_DATE) # NoDate}),
             changed |-> 0]
      [] script = "repair" ->
            [rows    |-> 0,
             changed |-> DupLoop(read_csv(source.rows), 1, {}, 0).changes
                         + Cardinality(DateHits(DupLoop(read_csv(source.rows), 1, {}, 0).df))]
      [] script = "datefix" ->
            [rows |-> Len(source.rows), changed |-> Cardinality(Remapped(source))]

\* a mutant of ReturnsEarly: the resolver does not look for game_id
ReturnsEarlyNotForGameId(script, source) ==
    CASE script = "resolver" -> FALSE
      [] script = "repair"   -> FALSE
      [] script = "datefix"  ->
            \/ source.header = <<>>
            \/ ~HasCol(source.header, "GAME_DATE")

\* the script returns before it writes anything
ReturnsEarly(script, source) ==
    CASE script = "resolver" -> HasCol(source.header, "game_id")
      [] script = "repair"   -> FALSE
      [] script = "datefix"  ->
            \/ source.header = <<>>
            \/ ~HasCol(source.header, "GAME_DATE")

\* reading the file raises: open() of a missing or unreadable file,
\* pd.read_csv of an unreadable or empty file, fix_file's ValueError
Unprocessable(script, source, can_read) ==
    CASE script = "resolver" -> ~source.exists \/ ~can_read
      [] script = "repair"   ->
            \/ ~can_read
            \/ source.header = <<>>
            \/ ~HasCol(source.header, "GAME_ID")
            \/ ~HasCol(source.header, "PLAYER_ID")
      [] script = "datefix"  -> ~can_read

\* the script writes over the file itself (df.to_csv(fp)), not a temp file
WritesInPlace(script) == script = "repair"

(***************************************************************************)
(* State.                                                                  *)
(***************************************************************************)
VARIABLES
    fp,          \* the daily CSV at the path given to fix_file: its rows
    df,          \* fix_file's data frame
    changes,     \* fix_file's counter
    rpc,         \* where fix_file stands: idle, read, deduped, dated
    runs,        \* completed runs of fix_file on fp
    ret,         \* what the last completed run returned
    fp_before,   \* history: fp as the running (or last) run found it
    df_read,     \* history: the frame as read by that run
    df_dup       \* history: the frame as the duplicate pass left it

repairVars == <<fp, df, changes, rpc, runs, ret, fp_before, df_read, df_dup>>

VARIABLES
    games,           \* the scraped game records: the rows of <year>_Games_all.csv
    combined,        \* data_etl/all_years_Games_all.csv holds these rows (else it
                     \* is missing or has no row)
    history_file,    \* the rows of player_team_history.csv
    target,          \* the daily file being processed: "etl" (all_years_*_daily.csv)
                     \* or "year" (<year>_*_daily.csv)
    pc,              \* where main stands
    player_history,  \* main's player_history
    gi,              \* records of the combined file read by build_games_index_and_abbr
    mapping_counts,  \* its votes, in the order counted
    games_index,     \* its games_index
    abbr_set,        \* its abbr_set
    team_abbr_map,   \* main's team_abbr_map
    team_abbr,       \* main's team_abbr (build_team_abbrev_map of the year's file)
    out,             \* the rows written to the daily file's .tmp
    rows_processed   \* process_daily_file's counter

resolverVars ==
    <<games, combined, history_file, target, pc, player_history, gi, mapping_counts,
      games_index, abbr_set, team_abbr_map, team_abbr, out, rows_processed>>

VARIABLES
    parsed,        \* the (year, team) rows parse_rows_for_years found on the page
    crawl_rows,    \* main's rows: what fetch_player_history returned
    out_path,      \* the rows of the file at OUT_PATH
    split_year,    \* split_year_entries' year
    teams_list,    \* its teams_list
    periods,       \* the periods it returns; coalesce_periods' periods
    merged,        \* coalesce_periods' merged
    ci,            \* the period its loop is at
    cpc            \* where the crawl stands

historyVars ==
    <<parsed, crawl_rows, out_path, split_year, teams_list, periods, merged, ci, cpc>>

VARIABLES
    fragments,     \* the rows of the statistics files, in the order they are read
    desired_role,  \* process_file's desired_role
    attributes,    \* the rows of player_attributes.csv
    name_to_ids,   \* main's name_to_ids
    unique_map,    \* main's unique_map
    dup_names,     \* main's dup_names
    roles_map,     \* main's roles_map
    names,         \* process_file's names, as far as the loop is
    ids,           \* process_file's ids
    added,         \* process_file's added
    apc            \* where the run stands

attachVars ==
    <<fragments, desired_role, attributes, name_to_ids, unique_map, dup_names,
      roles_map, names, ids, added, apc>>

VARIABLES
    tool,       \* the script that runs
    do_backup,  \* fix_file's do_backup (--backup)
    can_read,   \* the files that can be read
    prior,      \* the files at the paths when the run began
    at_path,    \* the files at the paths
    at_tmp,     \* the files at path + '.tmp'
    at_bak,     \* the files at path + '.bak'
    fi,         \* main's position in its loop over the files
    fpc,        \* the position of the run in the file
    replaced,   \* the paths os.replace(tmp, path) was called for
    entered,    \* the files main has taken up
    todo,       \* what the script is writing for the file, and will return
    fret        \* what the last call of fix_file / process_daily_file returned

filesVars ==
    <<tool, do_backup, can_read, prior, at_path, at_tmp, at_bak, fi, fpc, replaced,
      entered, todo, fret>>

VARIABLES
    page,       \* the away and home labels of the game elements of a page
    game_rows   \* the rows made from them

aliasVars == <<page, game_rows>>

vars == <<repairVars, resolverVars, historyVars, attachVars, filesVars, aliasVars>>

exceptRepair   == <<resolverVars, historyVars, attachVars, filesVars, aliasVars>>
exceptResolver == <<repairVars, historyVars, attachVars, filesVars, aliasVars>>
exceptHistory  == <<repairVars, resolverVars, attachVars, filesVars, aliasVars>>
exceptAttach   == <<repairVars, resolverVars, historyVars, filesVars, aliasVars>>
exceptFiles    == <<repairVars, resolverVars, historyVars, attachVars, aliasVars>>
exceptAlias    == <<repairVars, resolverVars, historyVars, attachVars, filesVars>>

\* the scripts that are not part of the run
ResolverIdle ==
    /\ games = <<>> /\ combined = FALSE /\ history_file = <<>> /\ target = "etl"
    /\ pc = "off" /\ player_history = <<>> /\ gi = 0 /\ mapping_counts = <<>>
    /\ games_index = <<>> /\ abbr_set = {} /\ team_abbr_map = <<>> /\ team_abbr = <<>>
    /\ out = <<>> /\ rows_processed = 0

RepairIdle ==
    /\ fp = <<>> /\ df = <<>> /\ changes = 0 /\ rpc = "off" /\ runs = 0 /\ ret = 0
    /\ fp_before = <<>> /\ df_read = <<>> /\ df_dup = <<>>

HistoryIdle ==
    /\ parsed = <<>> /\ crawl_rows = <<>> /\ out_path = <<>> /\ split_year = 0
    /\ teams_list = <<>> /\ periods = <<>> /\ merged = <<>> /\ ci = 0 /\ cpc = "off"

AttachIdle ==
    /\ fragments = <<>> /\ desired_role = "" /\ attributes = <<>> /\ name_to_ids = <<>>
    /\ unique_map = <<>> /\ dup_names = <<>> /\ roles_map = <<>> /\ names = <<>>
    /\ ids = <<>> /\ added = 0 /\ apc = "off"

FilesIdle ==
    /\ tool = "" /\ do_backup = FALSE /\ can_read = <<>> /\ prior = <<>>
    /\ at_path = <<>> /\ at_tmp = <<>> /\ at_bak = <<>> /\ fi = 0 /\ fpc = "off"
    /\ replaced = <<>> /\ entered = {} /\ todo = <<>> /\ fret = <<>>

AliasIdle == page = <<>> /\ game_rows = <<>>

\* every script but the one named is idle
OthersIdle(script) ==
    /\ script # "repair" => RepairIdle
    /\ script # "resolver" => ResolverIdle
    /\ script # "history" => HistoryIdle
    /\ script # "attach" => AttachIdle
    /\ script # "files" => FilesIdle
    /\ script # "alias" => AliasIdle

(***************************************************************************)
(* The daily files the repair engine is run on.                            *)
(***************************************************************************)
PlayerIds == {"p1", "p2"}

GameIdPool ==
    {"",                   \* unresolved
     "20240501AABB0",      \* well-formed, sequence digit 0
     "20240501AABB1",      \* well-formed, sequence digit 1
     "20240501AABB2",      \* the second game of a double-header
     "20240501AABB01"}     \* 14 characters, the last one '1'

GameDatePool == {"2024-05-01", "2024-05-10"}

RepairRows ==
    [PLAYER_ID : PlayerIds, GAME_ID : GameIdPool, GAME_DATE : GameDatePool]

InitRepair ==
    /\ OthersIdle("repair")
    /\ fp \in SeqsUpTo(RepairRows, MaxRows)
    /\ df = <<>>
    /\ changes = 0
    /\ rpc = "idle"
    /\ runs = 0
    /\ ret = 0
    /\ fp_before = fp
    /\ df_read = <<>>
    /\ df_dup = <<>>

\* Files that exercise the date pass: every day of mapping, a day outside
\* it, a missing date, identifiers with and without the '_2' marker.
DateRows ==
    [PLAYER_ID : {"p1"},
     GAME_ID   : {"", "20240501AABB0", "20240502AABB0_2"},
     GAME_DATE : {"2024-05-01", "2024-05-02", "2024-05-03", "2024-05-10", ""}]

InitDates ==
    /\ OthersIdle("repair")
    /\ fp \in SeqsUpTo(DateRows, MaxRows)
    /\ df = <<>>
    /\ changes = 0
    /\ rpc = "idle"
    /\ runs = 0
    /\ ret = 0
    /\ fp_before = fp
    /\ df_read = <<>>
    /\ df_dup = <<>>

(***************************************************************************)
(* fix_file, step by step.                                                 *)
(***************************************************************************)
\* df = pd.read_csv(fp, dtype=str); seen = set(); changes = 0
ReadCsv ==
    /\ rpc = "idle"
    /\ runs < MaxRuns
    /\ df' = read_csv(fp)
    /\ df_read' = read_csv(fp)
    /\ df_dup' = <<>>
    /\ fp_before' = fp
    /\ changes' = 0
    /\ rpc' = "read"
    /\ UNCHANGED <<fp, runs, ret>>
    /\ UNCHANGED exceptRepair

\* first pass: resolve duplicates
DuplicatePass ==
    /\ rpc = "read"
    /\ LET r == DupLoop(df, 1, {}, changes)
       IN  /\ df' = r.df
           /\ df_dup' = r.df
           /\ changes' = r.changes
    /\ rpc' = "deduped"
    /\ UNCHANGED <<fp, runs, ret, fp_before, df_read>>
    /\ UNCHANGED exceptRepair

\* second pass: correct dates for GAME_IDs that end with '_2'
DatePass ==
    /\ rpc = "deduped"
    /\ df' = DateLoop(df)
    /\ changes' = changes + Cardinality(DateHits(df))
    /\ rpc' = "dated"
    /\ UNCHANGED <<fp, runs, ret, fp_before, df_read, df_dup>>
    /\ UNCHANGED exceptRepair

\* df.to_csv(fp, index=False); return changes
WriteBack ==
    /\ rpc = "dated"
    /\ fp' = to_csv(df)
    /\ ret' = changes
    /\ runs' = runs + 1
    /\ rpc' = "idle"
    /\ UNCHANGED <<df, changes, fp_before, df_read, df_dup>>
    /\ UNCHANGED exceptRepair

NextRepair == ReadCsv \/ DuplicatePass \/ DatePass \/ WriteBack

SpecRepair == InitRepair /\ [][NextRepair]_vars

SpecDates == InitDates /\ [][NextRepair]_vars

\* a run of fix_file has just completed
Finished == rpc = "idle" /\ runs >= 1


(***************************************************************************)
(* add_game_id_to_daily.main: the inputs.                                  *)
(***************************************************************************)
GameRec(gid, date, away, home) ==
    [game_id |-> gid, date |-> date, team_away |-> away, team_home |-> home]

GamePool ==
    {GameRec("20230815XXYY0", "2023-08-15", "A", "B"),
     GameRec("20230815XXYY1", "2023-08-15", "A", "B"),   \* second game of the day
     GameRec("20230816ZZYY0", "2023-08-16", "A", "B"),   \* A under another code
     GameRec("20230815YYXX0", "2023-08-15", "B", "A"),   \* sides swapped
     GameRec("20230815XX",    "2023-08-15", "A", "B"),   \* game_id too short
     GameRec("20230815XXYY0", "",           "A", "B")}   \* no date

Interval(pid, team, sd, ed) ==
    [player_id |-> pid, team |-> team, start_date |-> sd, end_date |-> ed]

HistoryFiles ==
    {<<Interval("p1", "A", "2023-01-01", "2023-12-31")>>,
     <<Interval("p1", "A", "2023-01-01", "2023-06-30"),
       Interval("p1", "B", "2023-07-01", "2023-12-31")>>,
     \* not in start order; 2023-08-15 is the last day with A
     <<Interval("p1", "B", "2023-08-16", "2023-12-31"),
       Interval("p1", "A", "2023-01-01", "2023-08-15")>>,
     \* nothing covers 2023-08-15
     <<Interval("p1", "A", "2023-01-01", "2023-06-30")>>,
     \* what the crawl writes for a player without observations
     main_rows("p1", fetch_player_history("p1", <<>>))}

DailyRows ==
    [PLAYER_ID : {"p1"}, GAME_DATE : {"2023-08-15"}, OPPONENT : {"A", "B", "YY"}]
    \cup [PLAYER_ID : {"p1"}, GAME_DATE : {""}, OPPONENT : {"B"}]   \* no date

Init ==
    /\ OthersIdle("resolver")
    /\ games \in SeqsUpTo(GamePool, MaxGames)
    /\ combined \in BOOLEAN
    /\ history_file \in HistoryFiles
    /\ target \in {"etl", "year"}
    /\ pc = "start"
    /\ player_history = <<>>
    /\ gi = 0
    /\ mapping_counts = <<>>
    /\ games_index = <<>>
    /\ abbr_set = {}
    /\ team_abbr_map = <<>>
    /\ team_abbr = <<>>
    /\ out = <<>>
    /\ rows_processed = 0

(***************************************************************************)
(* main, step by step.                                                     *)
(***************************************************************************)
\* player_history = load_player_history(PTH_PLAYER_HISTORY)
LoadPlayerHistory ==
    /\ pc = "start"
    /\ player_history' = load_player_history(history_file)
    /\ pc' = "index"
    /\ UNCHANGED <<games, combined, history_file, target, gi, mapping_counts,
                   games_index, abbr_set, team_abbr_map, team_abbr, out, rows_processed>>
    /\ UNCHANGED exceptResolver

\* build_games_index_and_abbr: one record of the reader loop
IndexGame ==
    /\ pc = "index"
    /\ combined
    /\ gi < Len(games)
    /\ LET r == games[gi + 1]
       IN  /\ gi' = gi + 1
           /\ mapping_counts' =
                IF r.date = "" THEN mapping_counts ELSE mapping_counts \o IndexVotes(r)
           /\ abbr_set' =
                IF r.date = "" THEN abbr_set
                ELSE abbr_set \cup {IndexVotes(r)[i][2] : i \in 1..Len(IndexVotes(r))}
           /\ games_index' =
                IF IsIndexed(r) THEN IndexPut(games_index, IndexKey(r), r.game_id)
                ELSE games_index
    /\ UNCHANGED <<games, combined, history_file, target, pc, player_history,
                   team_abbr_map, team_abbr, out, rows_processed>>
    /\ UNCHANGED exceptResolver

\* build_games_index_and_abbr: after the loop (or at once, when the file
\* is missing), the majority vote
FinishIndex ==
    /\ pc = "index"
    /\ ~combined \/ gi = Len(games)
    /\ team_abbr_map' = TeamAbbr(mapping_counts)
    /\ pc' = "year"
    /\ UNCHANGED <<games, combined, history_file, target, player_history, gi,
                   mapping_counts, games_index, abbr_set, team_abbr, out, rows_processed>>
    /\ UNCHANGED exceptResolver

\* team_abbr = build_team_abbrev_map(games_all)
BuildTeamAbbrevMap ==
    /\ pc = "year"
    /\ team_abbr' = build_team_abbrev_map(games)
    /\ pc' = "daily"
    /\ UNCHANGED <<games, combined, history_file, target, player_history, gi,
                   mapping_counts, games_index, abbr_set, team_abbr_map, out, rows_processed>>
    /\ UNCHANGED exceptResolver

\* main hands process_daily_file the tuple: always for the combined daily
\* files, and for a year's file when team_abbr_map is not empty
PassesTuple == target = "etl" \/ DOMAIN team_abbr_map # {}

\* team_map, as process_daily_file unpacks its third argument
TeamMapArg == IF PassesTuple THEN team_abbr_map ELSE team_abbr

\* process_daily_file: one row of the reader loop
ProcessRow ==
    /\ pc = "daily"
    /\ Len(out) < MaxDaily
    /\ \E r \in DailyRows :
         IF FromIso(r.GAME_DATE) = NoDate
         THEN /\ out' = Append(out, [game_id |-> "", PLAYER_ID |-> r.PLAYER_ID,
                                     GAME_DATE |-> r.GAME_DATE, OPPONENT |-> r.OPPONENT])
              /\ UNCHANGED rows_processed
         ELSE /\ out' = Append(out,
                    [game_id   |-> ResolveRow(player_history, TeamMapArg, PassesTuple,
                                              games_index, r),
                     PLAYER_ID |-> r.PLAYER_ID,
                     GAME_DATE |-> r.GAME_DATE, OPPONENT |-> r.OPPONENT])
              /\ rows_processed' = rows_processed + 1
    /\ UNCHANGED <<games, combined, history_file, target, pc, player_history, gi,
                   mapping_counts, games_index, abbr_set, team_abbr_map, team_abbr>>
    /\ UNCHANGED exceptResolver

\* os.replace(tmp_path, path); return rows_processed
Replace ==
    /\ pc = "daily"
    /\ pc' = "done"
    /\ UNCHANGED <<games, combined, history_file, target, player_history, gi,
                   mapping_counts, games_index, abbr_set, team_abbr_map, team_abbr,
                   out, rows_processed>>
    /\ UNCHANGED exceptResolver

Next ==
    \/ LoadPlayerHistory
    \/ IndexGame
    \/ FinishIndex
    \/ BuildTeamAbbrevMap
    \/ ProcessRow
    \/ Replace

Spec == Init /\ [][Next]_vars

\* the counters process_daily_file keeps and returns
Counters == [rows_processed |-> rows_processed]

Rows(f) == 1..Len(f)

(***************************************************************************)
(* The game index and the resolver: claims.                                *)
(***************************************************************************)
\* the records of the combined file read so far that were put in the index
\* under key k
ReadUnder(k) == {i \in 1..gi : IsIndexed(games[i]) /\ IndexKey(games[i]) = k}

\* C1: when the game index is built, an entry keeps the game_id of the first
\* record read under its key; a later record with the same (date, away, home)
\* key never overwrites it.  The code breaks it: the assignment overwrites.
C1_FirstSeenWins ==
    \A k \in DOMAIN games_index :
        \E i \in ReadUnder(k) :
            /\ \A j \in ReadUnder(k) : i <= j
            /\ games_index[k] = games[i].game_id

\* the date of a written row, and the player's team of record on it
DateOf(row) == FromIso(row.GAME_DATE)
TeamOfRecord(row) == find_player_team_at(player_history, row.PLAYER_ID, DateOf(row))

\* C2: every non-empty game_id process_daily_file writes is a value the
\* games index holds under the row's date, however main calls it.  The code
\* breaks it: without the combined games file main passes the year's
\* abbreviation map alone and the identifier is put together from the date
\* and the two abbreviations.
C2_WrittenIdsComeFromTheIndex ==
    \A i \in Rows(out) :
        out[i].game_id # "" =>
            \E k \in DOMAIN games_index :
                /\ k[1] = Strftime(DateOf(out[i]))
                /\ games_index[k] = out[i].game_id

\* game record g is a game of team pt against the row's opponent, who is
\* given by name or by the code the game_id has for that side
Opposes(g, pt, opp) ==
    \/ g.team_away = pt /\ opp \in {g.team_home, HomeAbbr(g.game_id)}
    \/ g.team_home = pt /\ opp \in {g.team_away, AwayAbbr(g.game_id)}

\* C8: after resolution a row with a non-empty game_id references a game
\* record of the row's date whose two sides are the player's team of record
\* and the row's opponent; stated here for the calls in which main passes
\* the year's abbreviation map, every game record is dated and the opponent
\* is another team.  The code breaks it there: the identifier it puts
\* together need not be that of any game record.
C8_WrittenIdReferencesTheGame ==
    \A i \in Rows(out) :
        ( /\ out[i].game_id # "" /\ ~PassesTuple
          /\ \A j \in 1..Len(games) : FromIso(games[j].date) # NoDate
          /\ out[i].OPPONENT # TeamOfRecord(out[i]) ) =>
            \E j \in 1..Len(games) :
                /\ games[j].game_id = out[i].game_id
                /\ FromIso(games[j].date) = DateOf(out[i])
                /\ Opposes(games[j], TeamOfRecord(out[i]), out[i].OPPONENT)

\* record j of the combined file is indexed, and no other record read has
\* its key
OnlyGameIndexed(j) ==
    /\ IsIndexed(games[j])
    /\ ReadUnder(IndexKey(games[j])) = {j}

\* the row, of date d, is on the date of game g, for a player whose team of
\* record pt is one side, facing the other side
RowOfGame(row, d, pt, g) ==
    /\ \/ pt = g.team_away /\ row.OPPONENT = g.team_home
       \/ pt = g.team_home /\ row.OPPONENT = g.team_away
    /\ d # NoDate
    /\ d = FromIso(g.date)

\* C9 as stated: with the combined games file indexed, a game with a
\* well-formed game_id that is the only game indexed for its key is what a
\* row of that date resolves to, for a player of either side facing the
\* other side.
C9_RoundTrip ==
    combined => \A i \in Rows(out) :
        LET d == DateOf(out[i])
            pt == find_player_team_at(player_history, out[i].PLAYER_ID, d)
        IN  \A j \in 1..Len(games) :
                (RowOfGame(out[i], d, pt, games[j]) /\ OnlyGameIndexed(j))
                    => out[i].game_id = games[j].game_id

\* the majority vote gives both teams of g the codes g's game_id has for
\* them
VotedAsInId(g) ==
    /\ Get(team_abbr_map, g.team_away) = AwayAbbr(g.game_id)
    /\ Get(team_abbr_map, g.team_home) = HomeAbbr(g.game_id)

\* a game of the same date is indexed with the sides of g swapped
SwappedIndexed(g) ==
    <<IndexKey(g)[1], HomeAbbr(g.game_id), AwayAbbr(g.game_id)>> \in DOMAIN games_index

\* C9 amended: the same, provided the majority-vote abbreviation of each of
\* the two teams is the one the game_id carries for it and, when the player
\* is on the away side, no game of that date is indexed under the swapped
\* pair.  Stated by contraposition: a row that did not get the game_id of
\* game j fails one of the conditions.
C9_RoundTripVoted ==
    combined => \A i \in Rows(out) :
        LET d == DateOf(out[i])
            pt == find_player_team_at(player_history, out[i].PLAYER_ID, d)
        IN  \A j \in 1..Len(games) :
                out[i].game_id # games[j].game_id =>
                    ~( /\ RowOfGame(out[i], d, pt, games[j])
                       /\ VotedAsInId(games[j])
                       /\ OnlyGameIndexed(j)
                       /\ pt = games[j].team_away => ~SwappedIndexed(games[j]) )

\* C9 witness: a row of a player of the away side, with nothing indexed
\* under the swapped pair, has got the game_id of the only game indexed
\* for its key.
C9_Witness ==
    combined /\ \E j \in 1..Len(games) : \E i \in Rows(out) :
        /\ RowOfGame(out[i], DateOf(out[i]), TeamOfRecord(out[i]), games[j])
        /\ TeamOfRecord(out[i]) = games[j].team_away
        /\ VotedAsInId(games[j])
        /\ OnlyGameIndexed(j)
        /\ ~SwappedIndexed(games[j])
        /\ out[i].game_id = games[j].game_id

\* the crawl found no team observation for p1
NoObservations == history_file = main_rows("p1", fetch_player_history("p1", <<>>))

\* C16: a player for whom the crawl found no team observation has no
\* usable interval: the NO_DATA row with empty dates is dropped when the
\* history is loaded, every team lookup for the player returns unknown and
\* each of the player's daily rows gets an empty game_id.
C16_NoObservationsNoGameId ==
    (NoObservations /\ pc # "start") =>
        /\ "p1" \notin DOMAIN player_history
        /\ \A r \in DailyRows :
              find_player_team_at(player_history, "p1", FromIso(r.GAME_DATE)) = NoTeam
        /\ \A i \in Rows(out) : out[i].PLAYER_ID = "p1" => out[i].game_id = ""

\* C16 witness: with games indexed for its date, a dated row of the player
\* without observations has been written without a game_id.
C16_Witness ==
    /\ NoObservations
    /\ DOMAIN games_index # {}
    /\ \E i \in Rows(out) :
          /\ DateOf(out[i]) # NoDate
          /\ <<Strftime(DateOf(out[i])), "XX", "YY">> \in DOMAIN games_index
          /\ out[i].game_id = ""

\* a written row whose date no interval of its player covers
Uncovered(row) == DateOf(row) # NoDate /\ TeamOfRecord(row) = NoTeam

\* the rows written without a game_id although their date parsed
UnresolvedRows == {i \in Rows(out) : DateOf(out[i]) # NoDate /\ out[i].game_id = ""}

\* C10: a row whose date no interval of its player covers gets an empty
\* game_id, without an exception, and is counted once by an unresolved
\* counter: some counter of process_daily_file is the number of rows left
\* unresolved.  The code keeps no such counter: rows_processed, its only
\* one, goes up for every row whose date parses.
C10_UncoveredRowsAreCountedUnresolved ==
    /\ \A i \in Rows(out) : Uncovered(out[i]) => out[i].game_id = ""
    /\ \E c \in DOMAIN Counters : Counters[c] = Cardinality(UnresolvedRows)

(***************************************************************************)
(* The repair engine: claims.                                              *)
(***************************************************************************)
\* every row of the file the run read carries an identifier
AllIdentified == \A i \in Rows(df_read) : df_read[i].GAME_ID # NaN

\* C3: after fix_file (duplicate pass, then date pass) no two rows of the
\* file share the same (PLAYER_ID, GAME_ID) pair; stated here for the files
\* whose rows all carry an identifier.  The code breaks it: the third row of
\* a pair repeated three times gets the identifier of the second.
C3_NoTwoRowsShareAPair ==
    (Finished /\ AllIdentified) =>
        \A i \in Rows(fp) : \A j \in Rows(fp) :
            i # j => <<fp[i].PLAYER_ID, fp[i].GAME_ID>> # <<fp[j].PLAYER_ID, fp[j].GAME_ID>>

\* C4: a second run of fix_file on the file it just produced changes no row
\* and returns 0; stated here for the files whose rows all carry an
\* identifier.  The code breaks it: the second run meets the duplicates the
\* first run left or made.
C4_SecondRunChangesNothing ==
    (Finished /\ runs >= 2 /\ AllIdentified) => (fp = fp_before /\ ret = 0)

\* The pairs the scan has put in `seen` when it reaches row i: the pair each
\* earlier row was read with and the pair it was left with.
SeenBefore(i) ==
    {<<df_read[j].PLAYER_ID, Str(df_read[j].GAME_ID)>> : j \in 1..(i - 1)}
        \cup {<<df_dup[j].PLAYER_ID, Str(df_dup[j].GAME_ID)>> : j \in 1..(i - 1)}

\* The trailing sequence digit of an identifier: the 13th character of a
\* 13-character identifier (YYYYMMDD, two 2-letter codes, the digit).
HasSequenceDigit1(gid) == Len(gid) = 13 /\ Ch(gid, 13) = "1"

\* C5: in the duplicate pass rows are scanned in file order; a row that
\* carries an identifier and whose (PLAYER_ID, GAME_ID) pair was not seen on
\* an earlier row keeps its GAME_ID; a row that repeats a seen pair gets its
\* sequence digit '1' flipped to '2', and otherwise '_2' appended.
C5_DuplicatePassRule ==
    rpc = "deduped" =>
        \A i \in Rows(df) :
            LET gid == df_read[i].GAME_ID
            IN  gid # NaN =>
                  df[i].GAME_ID =
                    IF <<df_read[i].PLAYER_ID, gid>> \notin SeenBefore(i) THEN gid
                    ELSE IF HasSequenceDigit1(gid) THEN Slice(gid, 1, 12) \o "2"
                    ELSE gid \o "_2"

\* C5 witness: the pass has flipped one repeated row and marked another.
C5_Witness ==
    /\ rpc = "deduped"
    /\ \E i \in Rows(df) : \E j \in Rows(df) :
          /\ HasSequenceDigit1(df_read[i].GAME_ID)
          /\ df[i].GAME_ID = Slice(df_read[i].GAME_ID, 1, 12) \o "2"
          /\ df_read[j].GAME_ID # NaN
          /\ df[j].GAME_ID = df_read[j].GAME_ID \o "_2"
          /\ \E k \in Rows(df) : k < i /\ df_read[k].GAME_ID # NaN /\ df[k] = df_read[k]

\* a date in the form the pipeline writes, YYYY-MM-DD
IsIsoDate(d) ==
    /\ Len(d) = 10
    /\ DigitsAt(d, 1, 4) /\ Ch(d, 5) = "-"
    /\ DigitsAt(d, 6, 2) /\ Ch(d, 8) = "-"
    /\ DigitsAt(d, 9, 2)

\* day 01, 02, 03 becomes 10, 20, 30
ShiftedDay(day) == Ch(day, 2) \o "0"

\* C6: a row whose GAME_ID ends in '_2' and whose date has day 01, 02 or 03
\* gets, in the date pass, the date of the same year and month with day 10,
\* 20 or 30 (YYYY-MM-DD), the same new day in the YYYYMMDD its GAME_ID starts
\* with, and loses the '_2' suffix.
C6_DatePassRewrite ==
    rpc = "dated" =>
        \A i \in Rows(df) :
            LET gid == Str(df_dup[i].GAME_ID)
                gd  == df_dup[i].GAME_DATE
                day == Slice(gd, 9, 10)
                body == Slice(gid, 1, Len(gid) - 2)
            IN  (EndsWith(gid, "_2") /\ IsIsoDate(gd) /\ day \in {"01", "02", "03"}) =>
                  /\ df[i].GAME_DATE = Slice(gd, 1, 8) \o ShiftedDay(day)
                  /\ DigitsAt(body, 1, 8) =>
                        df[i].GAME_ID = Slice(body, 1, 6) \o ShiftedDay(day)
                                            \o Slice(body, 9, Len(body))
                  /\ (\A k \in 1..Len(body) : ~IsDigit(Ch(body, k))) =>
                        df[i].GAME_ID = body

\* C6 witness: the date pass has moved a row from day 01 to day 10 and set
\* its identifier's 20240502 to 20240510.
C6_Witness ==
    /\ rpc = "dated"
    /\ \E i \in Rows(df) :
          /\ df_dup[i].GAME_ID = "20240502AABB0_2"
          /\ df_dup[i].GAME_DATE = "2024-05-01"
          /\ df[i].GAME_DATE = "2024-05-10"
          /\ df[i].GAME_ID = "20240510AABB0"

\* C7 as stated: the count fix_file returns is the number of rows that
\* differ between the file it found and the file it wrote; stated here for
\* the files whose rows all carry an identifier.  The code breaks it: a row
\* rewritten by both passes is counted twice.
C7_CountIsRowsAltered ==
    (Finished /\ AllIdentified) => ret = Cardinality({i \in Rows(fp) : fp[i] # fp_before[i]})

\* C7 amended: the count is the number of rewrites applied, those of the
\* duplicate pass plus those of the date pass.
C7_CountIsRewritesApplied ==
    Finished =>
        ret = Cardinality({i \in Rows(df) : df_dup[i] # df_read[i]})
              + Cardinality({i \in Rows(df) : df[i] # df_dup[i]})

\* C7 witness: a run has rewritten one row in both passes.
C7_Witness ==
    /\ Finished
    /\ \E i \in Rows(df) : df_dup[i] # df_read[i] /\ df[i] # df_dup[i]


(***************************************************************************)
(* crawl_player_team_history: the inputs.  A run applies one of            *)
(* fetch_player_history (followed by main's append), split_year_entries    *)
(* and coalesce_periods.                                                   *)
(***************************************************************************)
MaxObs == 3
MaxTeams == 4
MaxPeriods == 3

Teams == {"A", "B"}

\* rows of the page: the years are among 2021..2025 after parse_rows_for_years
Observations == {2021, 2022, 2023} \X Teams

SplitYears == {2023, 2024}

PeriodPool ==
    {Period(2021, t, se[1], se[2]) :
        t \in Teams,
        se \in {<<Date(2021, 1, 1), Date(2021, 6, 30)>>,
                <<Date(2021, 6, 30), Date(2021, 12, 31)>>,
                <<Date(2021, 7, 1), Date(2021, 12, 31)>>,
                <<Date(2021, 7, 2), Date(2021, 12, 31)>>,
                <<Date(2021, 1, 1), Date(2021, 12, 31)>>}}

InitHistory ==
    /\ OthersIdle("history")
    /\ crawl_rows = <<>> /\ out_path = <<>> /\ merged = <<>> /\ ci = 0
    /\ \/ /\ cpc = "fetch"
          /\ parsed \in SeqsUpTo(Observations, MaxObs)
          /\ split_year = 0 /\ teams_list = <<>> /\ periods = <<>>
       \/ /\ cpc = "split"
          /\ split_year \in SplitYears
          /\ teams_list \in SeqsUpTo(Teams, MaxTeams) \ {<<>>}
          /\ parsed = <<>> /\ periods = <<>>
       \/ /\ cpc = "coalesce"
          /\ periods \in SeqsUpTo(PeriodPool, MaxPeriods)
          /\ parsed = <<>> /\ split_year = 0 /\ teams_list = <<>>

\* rows = fetch_player_history(session, pid, name, base)
FetchPlayerHistory ==
    /\ cpc = "fetch"
    /\ crawl_rows' = fetch_player_history("p1", parsed)
    /\ cpc' = "fetched"
    /\ UNCHANGED <<parsed, out_path, split_year, teams_list, periods, merged, ci>>
    /\ UNCHANGED exceptHistory

\* main: the rows, or the placeholder, are appended to OUT_PATH
AppendRows ==
    /\ cpc = "fetched"
    /\ out_path' = out_path \o main_rows("p1", crawl_rows)
    /\ cpc' = "done"
    /\ UNCHANGED <<parsed, crawl_rows, split_year, teams_list, periods, merged, ci>>
    /\ UNCHANGED exceptHistory

SplitYearEntries ==
    /\ cpc = "split"
    /\ periods' = split_year_entries(split_year, teams_list)
    /\ cpc' = "done"
    /\ UNCHANGED <<parsed, crawl_rows, out_path, split_year, teams_list, merged, ci>>
    /\ UNCHANGED exceptHistory

\* coalesce_periods up to its loop: the sort and merged = [periods[0]]
SortPeriods ==
    /\ cpc = "coalesce"
    /\ IF Len(periods) = 0
       THEN /\ cpc' = "done"
            /\ UNCHANGED <<periods, merged, ci>>
       ELSE /\ periods' = SortByStart(periods)
            /\ merged' = <<periods'[1]>>
            /\ ci' = 2
            /\ cpc' = "loop"
    /\ UNCHANGED <<parsed, crawl_rows, out_path, split_year, teams_list>>
    /\ UNCHANGED exceptHistory

\* one iteration of for p in periods[1:]
CoalesceStep ==
    /\ cpc = "loop"
    /\ ci <= Len(periods)
    /\ merged' = CoalesceOne(merged, periods[ci])
    /\ ci' = ci + 1
    /\ UNCHANGED <<parsed, crawl_rows, out_path, split_year, teams_list, periods, cpc>>
    /\ UNCHANGED exceptHistory

\* return merged
CoalesceReturn ==
    /\ cpc = "loop"
    /\ ci > Len(periods)
    /\ cpc' = "done"
    /\ UNCHANGED <<parsed, crawl_rows, out_path, split_year, teams_list, periods, merged, ci>>
    /\ UNCHANGED exceptHistory

NextHistory ==
    \/ FetchPlayerHistory
    \/ AppendRows
    \/ SplitYearEntries
    \/ SortPeriods
    \/ CoalesceStep
    \/ CoalesceReturn

SpecHistory == InitHistory /\ [][NextHistory]_vars

(***************************************************************************)
(* crawl_player_team_history: claims.                                      *)
(***************************************************************************)
Fetched == cpc \in {"fetched", "done"} /\ split_year = 0 /\ merged = <<>> /\ ci = 0

\* C11: the intervals the history builder returns for a player are sorted
\* by start date, no two of them overlap, and each has start_date <=
\* end_date; so are the periods split_year_entries returns for a year.
C11_IntervalsSortedDisjoint ==
    /\ \A i \in Rows(crawl_rows) :
          /\ FromIso(crawl_rows[i].start_date) # NoDate
          /\ FromIso(crawl_rows[i].end_date) # NoDate
          /\ FromIso(crawl_rows[i].start_date) <= FromIso(crawl_rows[i].end_date)
          /\ \A j \in Rows(crawl_rows) :
                i < j => FromIso(crawl_rows[i].end_date) < FromIso(crawl_rows[j].start_date)
    /\ split_year # 0 =>
          \A i \in Rows(periods) :
              /\ periods[i].start <= periods[i].end
              /\ \A j \in Rows(periods) : i < j => periods[i].end < periods[j].start

\* C11 witness: the builder has returned two intervals or more.
C11_Witness == Fetched /\ Len(crawl_rows) >= 2

\* C12: a player observed with two teams A then B in one year, and nothing
\* else, gets two intervals: A from Jan 1 to Jun 30 and B from Jul 1 to
\* Dec 31.  The code breaks it: year_team keeps the first team of a year
\* and split_year_entries is never called.
C12_TwoTeamsSplitTheYear ==
    ( /\ Fetched /\ Len(parsed) = 2
      /\ parsed[1][1] = parsed[2][1] /\ parsed[1][2] # parsed[2][2] ) =>
        crawl_rows =
            <<HistoryRow("p1", parsed[1][2], IsoFormat(Date(parsed[1][1], 1, 1)),
                         IsoFormat(Date(parsed[1][1], 6, 30))),
              HistoryRow("p1", parsed[2][2], IsoFormat(Date(parsed[1][1], 7, 1)),
                         IsoFormat(Date(parsed[1][1], 12, 31)))>>

ObservedYears == {parsed[i][1] : i \in Rows(parsed)}
FirstYear == CHOOSE y \in ObservedYears : \A z \in ObservedYears : y <= z
LastYear  == CHOOSE y \in ObservedYears : \A z \in ObservedYears : z <= y

\* the player is observed with one team only, in years that follow one
\* another
OneTeamRun ==
    /\ Len(parsed) >= 1
    /\ \A i \in Rows(parsed) : parsed[i][2] = parsed[1][2]
    /\ ObservedYears = FirstYear..LastYear

\* C13: a player observed with the same team in consecutive years and
\* nothing else gets exactly one interval, from Jan 1 of the first year to
\* Dec 31 of the last.
C13_OneTeamOneInterval ==
    (Fetched /\ OneTeamRun) =>
        crawl_rows = <<HistoryRow("p1", parsed[1][2], IsoFormat(Date(FirstYear, 1, 1)),
                                  IsoFormat(Date(LastYear, 12, 31)))>>

\* C13 witness: one team over two years or more has given one interval.
C13_Witness == Fetched /\ OneTeamRun /\ FirstYear < LastYear /\ Len(crawl_rows) = 1

\* the step taken is an iteration of the loop of coalesce_periods
IsCoalesceStep == cpc = "loop" /\ ci' = ci + 1

\* the iteration merged periods[ci] into the interval of periods[ci - 1]
MergedTheTwo == Len(merged') = Len(merged)

\* C14 as stated: two consecutive periods are merged if and only if they
\* have the same team and the later one starts exactly one day after the
\* earlier one ends.
C14_MergesIffNextDay ==
    [][IsCoalesceStep =>
        (MergedTheTwo <=>
            /\ periods[ci].team = periods[ci - 1].team
            /\ DaysBetween(periods[ci].start, periods[ci - 1].end) = 1)]_vars

\* C14 amended: two consecutive periods are merged if and only if they have
\* the same team and the later one starts on the day the earlier one ends
\* or on the day after; the merged interval then ends where the later one
\* ends.
C14_MergesIffSameOrNextDay ==
    [][IsCoalesceStep =>
        /\ MergedTheTwo <=>
              /\ periods[ci].team = periods[ci - 1].team
              /\ DaysBetween(periods[ci].start, periods[ci - 1].end) \in {0, 1}
        /\ merged'[Len(merged')].end = periods[ci].end]_vars

\* C14 witness: a period that starts on the day the earlier one of its team
\* ends has been merged into it.
C14_Witness ==
    /\ cpc = "loop" /\ ci = 3 /\ Len(merged) = 1
    /\ periods[2].team = periods[1].team
    /\ DaysBetween(periods[2].start, periods[1].end) = 0

\* the days of a period
DaysOf(p) == DaysBetween(p.end, p.start) + 1

\* C15: for a year with n > 2 teams split_year_entries returns n periods in
\* observation order, from Jan 1 to Dec 31, each starting the day after the
\* one before ends, each with start <= end, the first n - 1 of floor(days/n)
\* days and the last of the remaining days.
C15_EqualChunks ==
    (cpc = "done" /\ split_year # 0 /\ Len(teams_list) > 2) =>
        LET n    == Len(teams_list)
            days == DaysInYear(split_year)
        IN  /\ Len(periods) = n
            /\ periods[1].start = Date(split_year, 1, 1)
            /\ periods[n].end = Date(split_year, 12, 31)
            /\ \A i \in 1..n :
                  /\ periods[i].team = teams_list[i]
                  /\ periods[i].start <= periods[i].end
                  /\ i < n => DaysBetween(periods[i + 1].start, periods[i].end) = 1
                  /\ i < n => DaysOf(periods[i]) = days \div n
            /\ DaysOf(periods[n]) = days - (n - 1) * (days \div n)

\* C15 witness: a year of three teams or more has been split.
C15_Witness ==
    cpc = "done" /\ split_year # 0 /\ Len(teams_list) > 2 /\ Len(periods) = Len(teams_list)

(***************************************************************************)
(* Player ids: the inputs, and the steps from collect to process_file.     *)
(***************************************************************************)
MaxFrag == 2
MaxNames == 1

FragRow(role, pid, name) == [role |-> role, id |-> pid, name |-> name]

\* rows of the statistics files: an id written as a float, a second id, a
\* missing name, a second name, an id that is not a number, a missing id
FragRows ==
    {FragRow(role, pid, name) :
        role \in {"hitter", "pitcher"}, pid \in {"101", "101.0", "202"},
        name \in {"Kim", ""}}
    \cup {FragRow("hitter", "101", "Lee"), FragRow("hitter", "x9", "Kim"),
          FragRow("hitter", "", "Kim")}

\* the Name cells of an advanced file
TargetNames == {"Kim", "Lee", ""}

InitAttach ==
    /\ OthersIdle("attach")
    /\ fragments \in SeqsUpTo(FragRows, MaxFrag)
    /\ desired_role \in {"hitter", "pitcher", NoRole}
    /\ attributes = <<>> /\ name_to_ids = <<>> /\ unique_map = <<>> /\ dup_names = <<>>
    /\ roles_map = <<>> /\ names = <<>> /\ ids = <<>> /\ added = 0
    /\ apc = "collect"

\* collect(): player_attributes.csv is written
Collect ==
    /\ apc = "collect"
    /\ attributes' \in collect(fragments)
    /\ apc' = "load"
    /\ UNCHANGED <<fragments, desired_role, name_to_ids, unique_map, dup_names,
                   roles_map, names, ids, added>>
    /\ UNCHANGED exceptAttach

\* main: name_to_ids, unique_map, dup_names = load_attributes(PLAYER_ATTR)
LoadAttributes ==
    /\ apc = "load"
    /\ name_to_ids' = mapping_lists_of(attributes)
    /\ unique_map' = unique_map_of(name_to_ids')
    /\ dup_names' = dup_names_of(name_to_ids')
    /\ apc' = "scan"
    /\ UNCHANGED <<fragments, desired_role, attributes, roles_map, names, ids, added>>
    /\ UNCHANGED exceptAttach

\* main: roles_map = scan_roles(ROOT)
ScanRoles ==
    /\ apc = "scan"
    /\ roles_map' = scan_roles(fragments)
    /\ apc' = "file"
    /\ UNCHANGED <<fragments, desired_role, attributes, name_to_ids, unique_map,
                   dup_names, names, ids, added>>
    /\ UNCHANGED exceptAttach

\* process_file: one iteration of for n in names
ProcessName ==
    /\ apc = "file"
    /\ Len(ids) < MaxNames
    /\ \E cell \in TargetNames :
         LET n      == ReadCell(cell)
             chosen == Chosen(n, name_to_ids, unique_map, roles_map, desired_role)
         IN  /\ names' = Append(names, n)
             /\ ids' = Append(ids, chosen)
             /\ added' = IF chosen # "" THEN added + 1 ELSE added
    /\ UNCHANGED <<fragments, desired_role, attributes, name_to_ids, unique_map,
                   dup_names, roles_map, apc>>
    /\ UNCHANGED exceptAttach

\* process_file: the player_id column is inserted and the file written
WriteIds ==
    /\ apc = "file"
    /\ apc' = "done"
    /\ UNCHANGED <<fragments, desired_role, attributes, name_to_ids, unique_map,
                   dup_names, roles_map, names, ids, added>>
    /\ UNCHANGED exceptAttach

NextAttach == Collect \/ LoadAttributes \/ ScanRoles \/ ProcessName \/ WriteIds

SpecAttach == InitAttach /\ [][NextAttach]_vars

(***************************************************************************)
(* Player ids: claims.                                                     *)
(***************************************************************************)
\* the ids the attributes file gives for name n
CandidateIds(n) == {LoadedId(attributes[k]) : k \in {j \in Rows(attributes) : attributes[j].name = n}}

\* id c appears in a statistics file of the role
HasRole(c, role) ==
    \E k \in Rows(fragments) :
        ReadCell(fragments[k].id) # NaN /\ ScannedId(fragments[k]) = c /\ fragments[k].role = role

\* the candidates of name n that have the role of the target file
WithDesiredRole(n) ==
    {c \in CandidateIds(n) : desired_role # NoRole /\ HasRole(c, desired_role)}

Names(k, pid) ==
    /\ Collectable(fragments[k])
    /\ NormId(fragments[k].id) = pid
    /\ ReadCell(fragments[k].name) # NaN

MaxLines == 2

Siblings == 1..2

Cell(gid, date) == [PLAYER_ID |-> "p1", GAME_ID |-> gid, GAME_DATE |-> date]

\* a row without id, a row with an id, a row whose date does not parse
CellPool ==
    {Cell("", "2024-05-01"), Cell("20240501AABB0_2", "2024-05-01"), Cell("", "5/1")}

\* the cells of r that the header has a column for
Cells(header, r) ==
    [PLAYER_ID |-> IF HasCol(header, "PLAYER_ID") THEN r.PLAYER_ID ELSE "",
     GAME_ID   |-> IF HasCol(header, "GAME_ID") \/ HasCol(header, "game_id")
                   THEN r.GAME_ID ELSE "",
     GAME_DATE |-> IF HasCol(header, "GAME_DATE") THEN r.GAME_DATE ELSE ""]

FilesWith(header) ==
    {File(header, [i \in DOMAIN rows |-> Cells(header, rows[i])]) :
        rows \in SeqsUpTo(CellPool, MaxLines)}

\* the headers a script may meet: the raw daily file, the file with the
\* column the script adds or needs, a file without a date column
HeadersOf(script) ==
    CASE script = "resolver" ->
            {<<"PLAYER_ID", "GAME_DATE">>, <<"game_id", "PLAYER_ID", "GAME_DATE">>}
      [] script = "repair" ->
            {<<"GAME_ID", "PLAYER_ID", "GAME_DATE">>, <<"PLAYER_ID", "GAME_DATE">>}
      [] script = "datefix" ->
            {<<"game_id", "PLAYER_ID", "GAME_DATE">>, <<"PLAYER_ID", "GAME_DATE">>,
             <<"game_id", "PLAYER_ID">>}

\* a file may also be missing, or empty
InputFiles(script) == {Missing, Created} \cup UNION {FilesWith(h) : h \in HeadersOf(script)}

\* a .bak left by an earlier run
StaleBak == File(<<"game_id", "PLAYER_ID", "GAME_DATE">>, <<>>)

InitFiles ==
    /\ OthersIdle("files")
    /\ tool \in {"resolver", "repair", "datefix"}
    /\ do_backup \in (IF tool = "datefix" THEN BOOLEAN ELSE {FALSE})
    /\ can_read \in {[f \in Siblings |-> TRUE], [f \in Siblings |-> f # 1]}
    /\ at_path \in [Siblings -> InputFiles(tool)]
    /\ at_bak \in {[f \in Siblings |-> Missing]}
                 \cup (IF do_backup THEN {[f \in Siblings |-> StaleBak]} ELSE {})
    /\ at_tmp = [f \in Siblings |-> Missing]
    /\ prior = at_path
    /\ replaced = [f \in Siblings |-> FALSE]
    /\ entered = {}
    /\ todo = [file |-> Missing, ret |-> NoReturn]
    /\ fret = NoReturn
    /\ fi = 1
    /\ fpc = "main"

\* the file the script reads for sibling fi
Source ==
    IF tool = "datefix" /\ do_backup /\ at_bak[fi].exists THEN at_bak[fi] ELSE at_path[fi]

\* the file read is the one that was at the path when the run began
SourceIsOriginal == at_bak[fi] # StaleBak \/ ~(tool = "datefix" /\ do_backup)

SourceReadable == ~SourceIsOriginal \/ can_read[fi]

\* fix_game_date_for_missing_game_id.fix_file moves the file to .bak first
BackupDue == tool = "datefix" /\ do_backup /\ ~at_bak[fi].exists

\* the file the script is writing for sibling fi
Dest == IF WritesInPlace(tool) THEN at_path[fi] ELSE at_tmp[fi]

\* the file being written becomes d
SetDest(d) ==
    IF WritesInPlace(tool)
    THEN at_path' = [at_path EXCEPT ![fi] = d] /\ UNCHANGED at_tmp
    ELSE at_tmp' = [at_tmp EXCEPT ![fi] = d] /\ UNCHANGED at_path

\* fix_file: "if not fp.exists(): return 0" / "if not os.path.exists(path)"
Skip ==
    /\ fpc = "main" /\ fi \in Siblings
    /\ tool \in {"repair", "datefix"}
    /\ ~at_path[fi].exists
    /\ entered' = entered \cup {fi}
    /\ fi' = fi + 1
    /\ UNCHANGED <<tool, do_backup, can_read, prior, at_path, at_tmp, at_bak, fpc,
                   replaced, todo>>
    /\ fret' = NoReturn
    /\ UNCHANGED exceptFiles

\* fix_game_date_for_missing_game_id.fix_file: os.replace(path, bak)
Backup ==
    /\ fpc = "main" /\ fi \in Siblings
    /\ at_path[fi].exists
    /\ BackupDue
    /\ at_bak' = [at_bak EXCEPT ![fi] = at_path[fi]]
    /\ at_path' = [at_path EXCEPT ![fi] = Missing]
    /\ entered' = entered \cup {fi}
    /\ fpc' = "backed"
    /\ UNCHANGED <<tool, do_backup, can_read, prior, at_tmp, fi, replaced, todo>>
    /\ UNCHANGED fret
    /\ UNCHANGED exceptFiles

\* the script is about to open the file of sibling fi
AtOpen ==
    /\ fi \in Siblings
    /\ \/ fpc = "backed"
       \/ /\ fpc = "main"
          /\ ~BackupDue
          /\ (tool = "resolver" \/ at_path[fi].exists)

\* with open(...) as fr, open(tmp, 'w') as fw / df = pd.read_csv(fp) and
\* the two passes
Open ==
    /\ AtOpen
    /\ SourceReadable
    /\ ~Unprocessable(tool, Source, TRUE)
    /\ todo' = [file |-> NewContent(tool, Source), ret |-> Returned(tool, Source)]
    /\ IF WritesInPlace(tool) THEN UNCHANGED at_tmp
       ELSE at_tmp' = [at_tmp EXCEPT ![fi] = Created]
    /\ entered' = entered \cup {fi}
    /\ fpc' = "opened"
    /\ UNCHANGED <<tool, do_backup, can_read, prior, at_path, at_bak, fi, replaced>>
    /\ UNCHANGED fret
    /\ UNCHANGED exceptFiles

\* the file cannot be read, or lacks GAME_ID / PLAYER_ID: the exception
\* leaves fix_file / process_daily_file and main, which catches nothing
Raise ==
    /\ AtOpen
    /\ Unprocessable(tool, Source, SourceReadable)
    /\ entered' = entered \cup {fi}
    /\ fpc' = "raised"
    /\ UNCHANGED <<tool, do_backup, can_read, prior, at_path, at_tmp, at_bak, fi,
                   replaced, todo>>
    /\ UNCHANGED fret
    /\ UNCHANGED exceptFiles

\* "return 0" for a file that has game_id; "return 0, 0" for a file
\* without header or date column
EarlyReturn ==
    /\ fpc = "opened"
    /\ ReturnsEarly(tool, Source)
    /\ fi' = fi + 1
    /\ fpc' = "main"
    /\ UNCHANGED <<tool, do_backup, can_read, prior, at_path, at_tmp, at_bak,
                   replaced, entered, todo>>
    /\ fret' = NoReturn
    /\ UNCHANGED exceptFiles

\* df.to_csv(fp, index=False) opens fp for writing
Truncate ==
    /\ fpc = "opened"
    /\ WritesInPlace(tool)
    /\ at_path' = [at_path EXCEPT ![fi] = Created]
    /\ fpc' = "truncated"
    /\ UNCHANGED <<tool, do_backup, can_read, prior, at_tmp, at_bak, fi, replaced,
                   entered, todo>>
    /\ UNCHANGED fret
    /\ UNCHANGED exceptFiles

\* writer.writeheader() / the header line of to_csv
WriteHeader ==
    /\ IF WritesInPlace(tool) THEN fpc = "truncated"
       ELSE fpc = "opened" /\ ~ReturnsEarly(tool, Source)
    /\ SetDest(File(todo.file.header, <<>>))
    /\ fpc' = "rows"
    /\ UNCHANGED <<tool, do_backup, can_read, prior, at_bak, fi, replaced, entered, todo>>
    /\ UNCHANGED fret
    /\ UNCHANGED exceptFiles

\* writer.writerow(...) / the next line of to_csv
WriteRow ==
    /\ fpc = "rows"
    /\ Len(Dest.rows) < Len(todo.file.rows)
    /\ SetDest(File(Dest.header, Append(Dest.rows, todo.file.rows[Len(Dest.rows) + 1])))
    /\ UNCHANGED <<tool, do_backup, can_read, prior, at_bak, fi, fpc, replaced,
                   entered, todo>>
    /\ UNCHANGED fret
    /\ UNCHANGED exceptFiles

\* os.replace(tmp_path, path) and return
ReplaceFile ==
    /\ fpc = "rows"
    /\ ~WritesInPlace(tool)
    /\ Len(Dest.rows) = Len(todo.file.rows)
    /\ at_path' = [at_path EXCEPT ![fi] = at_tmp[fi]]
    /\ at_tmp' = [at_tmp EXCEPT ![fi] = Missing]
    /\ replaced' = [replaced EXCEPT ![fi] = TRUE]
    /\ fi' = fi + 1
    /\ fpc' = "main"
    /\ UNCHANGED <<tool, do_backup, can_read, prior, at_bak, entered, todo>>
    /\ fret' = todo.ret
    /\ UNCHANGED exceptFiles

\* fix_duplicate_game_ids.fix_file: return changes
Return ==
    /\ fpc = "rows"
    /\ WritesInPlace(tool)
    /\ Len(Dest.rows) = Len(todo.file.rows)
    /\ fi' = fi + 1
    /\ fpc' = "main"
    /\ UNCHANGED <<tool, do_backup, can_read, prior, at_path, at_tmp, at_bak,
                   replaced, entered, todo>>
    /\ fret' = todo.ret
    /\ UNCHANGED exceptFiles

\* main: the loop over the files is over
Finish ==
    /\ fpc = "main"
    /\ fi \notin Siblings
    /\ fpc' = "done"
    /\ UNCHANGED <<tool, do_backup, can_read, prior, at_path, at_tmp, at_bak, fi,
                   replaced, entered, todo>>
    /\ UNCHANGED fret
    /\ UNCHANGED exceptFiles

\* the run is interrupted, or a write fails, where it stands
Abort ==
    /\ fpc \in {"main", "backed", "opened", "truncated", "rows"}
    /\ fpc' = "aborted"
    /\ UNCHANGED <<tool, do_backup, can_read, prior, at_path, at_tmp, at_bak, fi,
                   replaced, entered, todo>>
    /\ UNCHANGED fret
    /\ UNCHANGED exceptFiles

NextFiles ==
    \/ Skip
    \/ Backup
    \/ Open
    \/ Raise
    \/ EarlyReturn
    \/ Truncate
    \/ WriteHeader
    \/ WriteRow
    \/ ReplaceFile
    \/ Return
    \/ Finish
    \/ Abort

SpecFiles == InitFiles /\ [][NextFiles]_vars

(***************************************************************************)
(* Rewrites: claims.                                                       *)
(***************************************************************************)
\* the run has aborted, or has returned from the last file
RunOver == fpc \in {"aborted", "raised", "done"}

\* C19: when a run has aborted or returned, at whatever point, every file
\* it has not replaced with its fully written temp file is at its path
\* with its complete prior content.
C19_PriorContentUntilReplaced ==
    RunOver => \A f \in Siblings : ~replaced[f] => at_path[f] = prior[f]

\* C20: a run that ended on its own, with or without a file it could not
\* process, has taken up both sibling files, and no such file ends the run.
C20_SiblingsProceed ==
    /\ fpc \in {"done", "raised"} => entered = Siblings
    /\ fpc # "raised"


\* C21: the file the resolver has written has game_id as its first column
\* before the columns of the input, and one row for every input row, in the
\* input's order, with the input's values in the original columns; a row
\* whose date does not parse is among them, with an empty game_id.
C21_OneRowOutPerRowIn ==
    \A f \in Siblings :
        tool = "resolver" /\ replaced[f] =>
            /\ at_path[f].header = <<"game_id">> \o prior[f].header
            /\ Len(at_path[f].rows) = Len(prior[f].rows)
            /\ \A i \in DOMAIN prior[f].rows :
                  /\ at_path[f].rows[i].PLAYER_ID = prior[f].rows[i].PLAYER_ID
                  /\ at_path[f].rows[i].GAME_DATE = prior[f].rows[i].GAME_DATE
                  /\ FromIso(prior[f].rows[i].GAME_DATE) = NoDate =>
                        at_path[f].rows[i].GAME_ID = ""

\* C21 witness: the resolver has written a file whose first row has a date
\* that does not parse and whose second row has one that does.
C21_Witness ==
    \E f \in Siblings :
        /\ tool = "resolver" /\ replaced[f]
        /\ Len(prior[f].rows) = 2
        /\ FromIso(prior[f].rows[1].GAME_DATE) = NoDate
        /\ FromIso(prior[f].rows[2].GAME_DATE) # NoDate
        /\ Len(at_path[f].rows) = 2


\* the date fix has rewritten sibling f from the file that was at its path
DateFixed(f) ==
    /\ tool = "datefix" /\ replaced[f]
    /\ ~do_backup \/ at_bak[f] = prior[f]

\* the row has no game_id and its date ends in -01, -02 or -03
MisdatedWithoutId(r) ==
    /\ r.GAME_ID = ""
    /\ Len(r.GAME_DATE) >= 3
    /\ Slice(r.GAME_DATE, Len(r.GAME_DATE) - 2, Len(r.GAME_DATE) - 1) = "-0"
    /\ Ch(r.GAME_DATE, Len(r.GAME_DATE)) \in {"1", "2", "3"}

\* the day 01, 02, 03 of the date turned into 10, 20, 30
TenfoldDay(date) ==
    Slice(date, 1, Len(date) - 2) \o Ch(date, Len(date)) \o "0"

WellFormed(j) == Len(games[j].game_id) >= 12

\* the number of well-formed records in which the team is the away team
\* under the code at characters 8-9, or the home team under the code at
\* characters 10-11
Cooccur(team, abbr) ==
    Cardinality({j \in Rows(games) :
                    /\ WellFormed(j) /\ games[j].team_away = team
                    /\ Slice(games[j].game_id, 9, 10) = abbr})
    + Cardinality({j \in Rows(games) :
                    /\ WellFormed(j) /\ games[j].team_home = team
                    /\ Slice(games[j].game_id, 11, 12) = abbr})

\* the teams named in a well-formed record
TeamsOfWellFormed ==
    {games[j].team_away : j \in {k \in Rows(games) : WellFormed(k)}}
    \cup {games[j].team_home : j \in {k \in Rows(games) : WellFormed(k)}}

AbbrsOfWellFormed ==
    {Slice(games[j].game_id, 9, 10) : j \in {k \in Rows(games) : WellFormed(k)}}
    \cup {Slice(games[j].game_id, 11, 12) : j \in {k \in Rows(games) : WellFormed(k)}}

\* the table maps every team of a well-formed record to a code it occurs
\* with most often
MajorityTable(table) ==
    \A team \in TeamsOfWellFormed \ {""} :
        /\ team \in DOMAIN table
        /\ \A abbr \in AbbrsOfWellFormed :
              Cooccur(team, table[team]) >= Cooccur(team, abbr)

TablesBuilt == pc \in {"daily", "done"}

\* C23: once the tables are built, the table of the combined games file and
\* the table of a year's games file map every team of a record with a
\* game_id of 12 characters or more to a code of maximal co-occurrence, and
\* no record with a shorter game_id has a vote or an index entry.
C23_TableIsMajorityOfWellFormed ==
    TablesBuilt =>
        /\ MajorityTable(team_abbr)
        /\ combined => MajorityTable(team_abbr_map)
        /\ DOMAIN team_abbr \subseteq TeamsOfWellFormed
        /\ DOMAIN team_abbr_map \subseteq TeamsOfWellFormed
        /\ \A key \in DOMAIN games_index : Len(games_index[key]) >= 12

(***************************************************************************)
(* crawl_game_by_game_selenium: the rows made from the game elements of a  *)
(* page.                                                                   *)
(***************************************************************************)
MaxElements == 1

\* the away/home attributes of a game element
Labels == {"", "LG", " lg ", "KIA Tigers", "kia-tigers", "SSG Land ers", "Foo", " Foo "}

Elements == [away : Labels, home : Labels]

InitAlias ==
    /\ OthersIdle("alias")
    /\ page \in SeqsUpTo(Elements, MaxElements)
    /\ game_rows = <<>>

\* one game element: away_team and home_team are normalized and the row
\* is appended
AppendGameRow ==
    /\ Len(game_rows) < Len(page)
    /\ LET li == page[Len(game_rows) + 1]
       IN  game_rows' = Append(game_rows,
                               [team_away |-> normalize_team_alias(li.away),
                                team_home |-> normalize_team_alias(li.home)])
    /\ UNCHANGED page
    /\ UNCHANGED exceptAlias

NextAlias == AppendGameRow

SpecAlias == InitAlias /\ [][NextAlias]_vars

(***************************************************************************)
(* Team aliases: claims.                                                   *)
(***************************************************************************)
\* the label without regard to case, spaces and hyphens
Folded(label) ==
    LET kept == {i \in 1..Len(label) : Ch(label, i) \notin {" ", "-"}}
        F[n \in 0..Len(label)] ==
            IF n = 0 THEN ""
            ELSE F[n - 1] \o (IF n \in kept THEN LowerChar(Ch(label, n)) ELSE "")
    IN  F[Len(label)]

Trimmed(label) ==
    LET inner == {i \in 1..Len(label) : Ch(label, i) # " "}
    IN  IF inner = {} THEN ""
        ELSE Slice(label, CHOOSE i \in inner : \A j \in inner : i <= j,
                          CHOOSE i \in inner : \A j \in inner : i >= j)

C25_EmptyIdStaysEmpty ==
    /\ rpc \in {"deduped", "dated"} =>
          \A i \in Rows(df_read) : df_read[i].GAME_ID = NaN => df[i].GAME_ID = NaN
    /\ Finished =>
          \A i \in Rows(fp_before) :
              ReadCell(fp_before[i].GAME_ID) = NaN => fp[i].GAME_ID = ""


(***************************************************************************)
(* crawl_player_team_history run again over the same player.               *)
(***************************************************************************)
MaxCrawlRows == 4

InitRecrawl ==
    /\ OthersIdle("history")
    /\ crawl_rows = <<>> /\ out_path = <<>> /\ merged = <<>> /\ ci = 0
    /\ cpc = "fetch"
    /\ parsed \in SeqsUpTo(Observations, MaxObs)
    /\ split_year = 0 /\ teams_list = <<>> /\ periods = <<>>

\* the script is started again: OUT_PATH exists and is kept
RunAgain ==
    /\ cpc = "done"
    /\ Len(out_path) < MaxCrawlRows
    /\ cpc' = "fetch"
    /\ UNCHANGED <<parsed, crawl_rows, out_path, split_year, teams_list, periods,
                   merged, ci>>
    /\ UNCHANGED exceptHistory

NextRecrawl == FetchPlayerHistory \/ AppendRows \/ RunAgain

SpecRecrawl == InitRecrawl /\ [][NextRecrawl]_vars

\* C26: after every run of the crawl, the list of intervals the resolver
\* loads for a player from player_team_history.csv has no interval twice
\* and no two intervals that overlap.
C26_LoadedIntervalsOnce ==
    cpc = "done" =>
        LET history == load_player_history(out_path)
        IN  \A pid \in DOMAIN history :
                \A i, j \in Rows(history[pid]) :
                    i < j => /\ history[pid][i] # history[pid][j]
                             /\ history[pid][i][2] < history[pid][j][1]


(***************************************************************************)
(* Runs of the resolver, or of the date fix, one after the other on the    *)
(* same two files.                                                         *)
(***************************************************************************)
InitReruns ==
    /\ InitFiles
    /\ tool \in {"resolver", "datefix"}
    /\ \A f \in Siblings : can_read[f] /\ ~at_bak[f].exists

\* between two runs a row is added to the first file
EditFile ==
    /\ fpc = "main" /\ fi = 1 /\ entered = {}
    /\ at_path[1].exists /\ at_path[1].header # <<>>
    /\ Len(at_path[1].rows) < MaxLines
    /\ \E r \in CellPool :
          at_path' = [at_path EXCEPT
                        ![1] = File(at_path[1].header,
                                    Append(at_path[1].rows, Cells(at_path[1].header, r)))]
    /\ prior' = at_path'
    /\ UNCHANGED <<tool, do_backup, can_read, at_tmp, at_bak, fi, fpc, replaced,
                   entered, todo, fret>>
    /\ UNCHANGED exceptFiles

\* the script is started again; .tmp and .bak files are where they were left
StartAgain ==
    /\ fpc \in {"done", "raised"}
    /\ prior' = at_path
    /\ replaced' = [f \in Siblings |-> FALSE]
    /\ entered' = {}
    /\ todo' = [file |-> Missing, ret |-> NoReturn]
    /\ fret' = NoReturn
    /\ fi' = 1
    /\ fpc' = "main"
    /\ UNCHANGED <<tool, do_backup, can_read, at_path, at_tmp, at_bak>>
    /\ UNCHANGED exceptFiles

NextReruns ==
    \/ Skip
    \/ Backup
    \/ Open
    \/ Raise
    \/ EarlyReturn
    \/ WriteHeader
    \/ WriteRow
    \/ ReplaceFile
    \/ Finish
    \/ EditFile
    \/ StartAgain

SpecReruns == InitReruns /\ [][NextReruns]_vars

\* C27: in every run of the resolver, a file that has a game_id column when
\* the run begins keeps its content throughout the run and is not
\* replaced, and the call made for it returns 0.
C27_FileWithGameIdIsLeftAlone ==
    \A f \in Siblings :
        tool = "resolver" /\ HasCol(prior[f].header, "game_id") =>
            /\ at_path[f] = prior[f]
            /\ ~replaced[f]
            /\ fi = f + 1 => fret.rows = 0

\* C27 witness: the resolver has returned from a file with a game_id
\* column and a row in it, after it had opened the file and its temp file.
C27_Witness ==
    \E f \in Siblings :
        /\ tool = "resolver" /\ fi = f + 1
        /\ HasCol(prior[f].header, "game_id")
        /\ Len(prior[f].rows) > 0
        /\ prior[f].rows[1].GAME_ID # ""
        /\ at_tmp[f] = Created

\* C28: when a run of the date fix with --backup has replaced a file, the
\* file holds the day remap of the content it had when that run began.
C28_RemapOfContentBeforeRun ==
    \A f \in Siblings :
        tool = "datefix" /\ do_backup /\ replaced[f] =>
            at_path[f] = NewContent("datefix", prior[f])


\* C29: the date pass leaves alone every row that does not both carry the
\* '_2' marker and have a date of day 01, 02 or 03: a row without the
\* marker, with another day, or with a date that does not parse has after
\* the date pass the GAME_ID and the date the duplicate pass left it with.
C29_DatePassLeavesOtherRows ==
    rpc = "dated" =>
        \A i \in Rows(df) :
            LET gid == Str(df_dup[i].GAME_ID)
                gd  == df_dup[i].GAME_DATE
            IN  ~(EndsWith(gid, "_2") /\ IsIsoDate(gd)
                        /\ Slice(gd, 9, 10) \in {"01", "02", "03"}) =>
                  /\ df[i].GAME_ID = df_dup[i].GAME_ID
                  /\ df[i].GAME_DATE = df_dup[i].GAME_DATE

\* C29 witness: the date pass has rewritten a marked row of day 01 and has
\* passed over an unmarked row of day 01 in the same file.
C29_Witness ==
    /\ rpc = "dated"
    /\ \E i, j \in Rows(df) :
          /\ EndsWith(Str(df_dup[i].GAME_ID), "_2")
          /\ df_dup[i].GAME_DATE = "2024-05-01"
          /\ df[i] # df_dup[i]
          /\ ~EndsWith(Str(df_dup[j].GAME_ID), "_2")
          /\ df_dup[j].GAME_DATE = "2024-05-01"
          /\ df[j] = df_dup[j]


\* the first years of the runs of consecutive observed years
RunStarts == {y \in ObservedYears : y - 1 \notin ObservedYears}

\* C30: no interval the history builder returns contains a year in which
\* the player was not observed, and a player observed with one team only
\* gets one interval per run of consecutive observed years.
C30_UnobservedYearUncovered ==
    Fetched =>
        /\ \A i \in Rows(crawl_rows) :
              \A y \in 2021..2025 :
                  ( /\ YearOf(FromIso(crawl_rows[i].start_date)) <= y
                    /\ y <= YearOf(FromIso(crawl_rows[i].end_date)) ) =>
                      y \in ObservedYears
        /\ (\A i \in Rows(parsed) : parsed[i][2] = parsed[1][2]) =>
              Len(crawl_rows) = Cardinality(RunStarts)

\* C30 witness: a player observed with one team in 2021 and 2023 only has
\* got the two intervals of 2021 and of 2023.
C30_Witness ==
    /\ Fetched
    /\ ObservedYears = {2021, 2023}
    /\ \A i \in Rows(parsed) : parsed[i][2] = parsed[1][2]
    /\ Len(crawl_rows) = 2
    /\ crawl_rows[1].end_date = "2021-12-31"
    /\ crawl_rows[2].start_date = "2023-01-01"

=============================================================================
